---------------------------- MODULE Spec2Model ----------------------------
(***************************************************************************)
(* Model of the screenshot-redactor detection / merge / verification core. *)
(*                                                                         *)
(*   - geometry kernel           src/src/lib/ocr/geom.ts:1-124             *)
(*   - detector worker clients   src/src/lib/ocr/detectorClient.ts,        *)
(*                               src/src/lib/ocr/geom.ts:127-271           *)
(*   - detector workers          src/src/workers/ocrWorker.ts              *)
(*   - AutoDetectPanel           src/src/components/AutoDetectPanel.tsx    *)
(*   - ManualRedactor            src/unnamed/part_008                      *)
(*   - redaction verification    src/src/lib/export/metadata.ts:37-119     *)
(*                                                                         *)
(* Numbers are integers.  A JavaScript number that is NaN or +-Infinity is *)
(* carried by a flag on the value that holds it (Rect.fin).  A ratio is a  *)
(* pair <<num, den>> with den > 0 and is compared by cross-multiplying; a  *)
(* Euclidean distance is carried as its square.                            *)
(***************************************************************************)
EXTENDS Integers, Sequences, FiniteSets, TLC

VARIABLES
  \* ---- geometry kernel: one call of nmsMergeRects and a second one on its result
  rects,      \* the Rect[] argument
  options,    \* the { iouThresh, distancePx } argument (iouThresh in hundredths)
  merged,     \* nmsMergeRects(rects, options)
  merged2,    \* nmsMergeRects(merged, options)
  gstage,     \* "input" | "once" | "twice"
  \* ---- redaction verification: one call of assertIrreversible
  before,     \* SimpleImageData of the region before the redaction
  after,      \* SimpleImageData of the region after it
  vtool,      \* "blackout" | "blur" | "pixelate"
  vdone,      \* whether the call has returned
  verdict     \* the boolean it returned

\* ---- detector client: detectBoxesFromCanvas / disposeDetectorWorker and the worker
VARIABLES
  client,         \* which client module is loaded: "ocr" | "heuristic" | "provider"
  workerInstance, \* the singleton Worker (0 = null, else the number of the instance)
  workerCount,    \* Worker instances constructed so far
  provider,       \* the singleton TextDetectorProvider is set (provider client)
  pending,        \* keys of the pending Map (request ids)
  pc,             \* where each call of detectBoxesFromCanvas stands
  rworker,        \* the Worker a call holds in its local variable (0 = none)
  bitmap,         \* the ImageBitmap of each call
  promise,        \* the promise each call returned
  reason,         \* the error a rejected promise carries
  settles,        \* resolve/reject calls made on each call's promise
  detected,       \* whether the detector has finished on the call's bitmap, and how
  inbox,          \* messages posted to the live worker, not yet handled (ids)
  outbox,         \* messages posted by the live worker, not yet delivered
  last            \* the step taken last

\* ---- AutoDetectPanel (runDetect, apply) and ManualRedactor (applyEffect, undo, redo,
\* ---- handleExport) on one canvas
VARIABLES
  working,      \* React state `working` of AutoDetectPanel, as last set
  workingSeen,  \* `working` as of the last render: what the closures and the button see
  runningRef,   \* runningRef.current
  baseRects,    \* React state `baseRects`: the suggestions
  padding,      \* React state `padding`
  errorMsg,     \* whether `errorMsg` is set
  inflight,     \* calls of detectBoxesFromCanvas not yet settled
  calls,        \* calls of detectBoxesFromCanvas made so far
  canvas,       \* the pixels of the canvas
  undoStack,    \* undoStack.current
  redoStack,    \* redoStack.current
  tool,         \* React state `tool`
  dev,          \* process.env.NODE_ENV === 'development'
  warned,       \* console.warn calls of the irreversibility check in the handler run last
  thrown,       \* whether the handler run last let an exception escape
  exported,     \* the image written by the last handleExport
  ops,          \* redactions applied so far
  limit,        \* the number of redactions a behaviour is followed to
  handler       \* the handler that went to the canvas or its history last, and
                \* whether a rect it was given had no width or no height: [name, empty]

\* ---- one detection: the canvas given to detectBoxesFromCanvas, the bitmap handed to
\* ---- the detector, the detector's pass over it and the polygons that come back
VARIABLES
  dclient,   \* "provider" (detectorClient.ts:88-275) | "worker" (geom.ts:127-271)
  dcanvas,   \* the pixels of the canvas argument
  dopts,     \* { longEdgePx, sensitivity } as the detector receives them
  dstage,    \* "call" | "bitmap" | "detected" | "returned"
  dscale,    \* the client's `scale`, a ratio
  dbitmap,   \* the ImageBitmap handed to the detector
  dspace,    \* <<w, h>> of the surface the detector analysed
  drects,    \* the detector's rects on that surface, as <<x1, y1, x2, y2>>
  dpolys,    \* the polygons the detector returned
  dboxes     \* the polygons detectBoxesFromCanvas resolved with; a coordinate is a ratio

\* ---- the OCR worker (ocrWorker.ts:1-180): its module variables and the messages it
\* ---- is sent
VARIABLES
  ocr,          \* whether `ocr` is non-null
  detector,     \* whether `detector` is non-null
  initPromise,  \* 0 for null, else the number of the initialization it is the promise of
  isReady,      \* isReady
  inits,        \* the initializations run so far: "pending" | "fulfilled" | "rejected"
  wkind,        \* per message: "valid" | "noid" | "nobitmap"
  wpc,          \* per message: "unsent" | "awaiting" | "answered"
  wawait,       \* per message: the initialization its handler awaits, 0 for none
  wanswer,      \* per message: "none" | "ok" | "payload" | "init" | "notready" | "detect"
  wclosed       \* per message: whether imageBitmap.close() has been called on its bitmap

\* ---- one call of polyToRect or inflateRect (geom.ts:4-38)
VARIABLES
  kstage,  \* "polyToRect" | "inflateRect" before the call, "rect" | "inflated" after it
  kpoly,   \* the argument of polyToRect: [isArray, values]
  krect,   \* the rect argument of inflateRect
  kpad,    \* the pad argument of inflateRect
  kbox,    \* the rect returned
  krect2,  \* the second rect argument of iou
  kratio   \* the ratio returned by iou, as <<inter, denom>>

\* ---- one stage of the worker's detector run on its own: thresholdBinary on a
\* ---- normalized map, the gradient threshold of HeuristicTextDetector on an image, the
\* ---- component filter on one component
VARIABLES
  sstage,  \* "thresholdBinary" | "gradient" | "filter" before the filter runs, "filtered" after
  snorm,   \* the normalized edge-magnitude map: [w, h, data]
  smask,   \* per sensitivity, the mask thresholdBinary returned (<<>> before the call)
  simg,    \* the image HeuristicTextDetector thresholds
  sgrad,   \* per sensitivity, the gradient map it computed (<<>> before the call)
  scomp,   \* the component given to the filter: [x, y, w, h, area, fill]
  ssens,   \* the sensitivity of the filter
  skept    \* whether the filter kept the component

\* ---- the detections store (useDetections) and the handlers of ManualRedactor that
\* ---- write and read it
VARIABLES
  detections,      \* state.detections: a list of [id, type]
  grouped,         \* state.grouped: per type, the detections of that type
  acceptedById,    \* state.acceptedById: per id "true", "false" or "absent"
  lastCandidates,  \* lastCandidatesRef.current
  userAccepted,    \* the ids the user has accepted since the list was last replaced
  appliedIds,      \* the ids onApplyAccepted redacted when it ran last
  runs             \* detection runs so far

kernelVars == <<kstage, kpoly, krect, kpad, kbox, krect2, kratio>>

stageVars == <<sstage, snorm, smask, simg, sgrad, scomp, ssens, skept>>

storeVars ==
  <<detections, grouped, acceptedById, lastCandidates, userAccepted, appliedIds, runs>>

workerVars ==
  <<ocr, detector, initPromise, isReady, inits, wkind, wpc, wawait, wanswer, wclosed>>

geomVars == <<rects, options, merged, merged2, gstage>>
verifyVars == <<before, after, vtool, vdone, verdict>>
clientVars ==
  <<client, workerInstance, workerCount, provider, pending, pc, rworker, bitmap,
    promise, reason, settles, detected, inbox, outbox, last>>
panelVars == <<working, workingSeen, runningRef, baseRects, padding, errorMsg, inflight, calls>>
redactorVars ==
  <<canvas, undoStack, redoStack, tool, dev, warned, thrown, exported, ops, limit, handler>>
uiVars == <<panelVars, redactorVars>>

detectVars ==
  <<dclient, dcanvas, dopts, dstage, dscale, dbitmap, dspace, drects, dpolys, dboxes>>

vars ==
  <<geomVars, verifyVars, clientVars, uiVars, detectVars, workerVars, kernelVars, stageVars,
    storeVars>>

\* What the steps of one part leave alone.
notGeom ==
  <<verifyVars, clientVars, uiVars, detectVars, workerVars, kernelVars, stageVars, storeVars>>
notVerify ==
  <<geomVars, clientVars, uiVars, detectVars, workerVars, kernelVars, stageVars, storeVars>>
notClient ==
  <<geomVars, verifyVars, uiVars, detectVars, workerVars, kernelVars, stageVars, storeVars>>
notUI ==
  <<geomVars, verifyVars, clientVars, detectVars, workerVars, kernelVars, stageVars, storeVars>>
notDetect ==
  <<geomVars, verifyVars, clientVars, uiVars, workerVars, kernelVars, stageVars, storeVars>>
notWorker ==
  <<geomVars, verifyVars, clientVars, uiVars, detectVars, kernelVars, stageVars, storeVars>>
notKernel ==
  <<geomVars, verifyVars, clientVars, uiVars, detectVars, workerVars, stageVars, storeVars>>
notStage ==
  <<geomVars, verifyVars, clientVars, uiVars, detectVars, workerVars, kernelVars, storeVars>>
notStore ==
  <<geomVars, verifyVars, clientVars, uiVars, detectVars, workerVars, kernelVars, stageVars>>

-----------------------------------------------------------------------------
(* Small helpers of the host language.                                      *)

Min2(a, b) == IF a <= b THEN a ELSE b
Max2(a, b) == IF a >= b THEN a ELSE b

SetMin(S) == CHOOSE m \in S : \A e \in S : m <= e
SetMax(S) == CHOOSE m \in S : \A e \in S : m >= e

SeqToSet(s) == {s[i] : i \in 1..Len(s)}

\* An array filled once: the function f with every element computed.
Filled(f) == f @@ <<>>

\* const x = v; ... : the value of F with its argument computed once.
Const(v, F(_)) == CHOOSE r \in {F(x) : x \in {v}} : TRUE

RECURSIVE SeqsUpTo(_, _)
SeqsUpTo(S, n) ==
  IF n = 0 THEN {<<>>}
  ELSE LET shorter == SeqsUpTo(S, n - 1)
       IN  shorter \cup {Append(s, e) : s \in {t \in shorter : Len(t) = n - 1}, e \in S}

-----------------------------------------------------------------------------
(* Numbers.                                                                 *)

Abs(n) == IF n < 0 THEN -n ELSE n

\* The numbers of the geometry kernel are IEEE doubles: 53 significant
\* bits, a largest finite value, two infinities and NaN.  Here a number is an
\* integer kept to SignificantBits significant bits (round to nearest, ties to
\* even); its magnitude is at most MaxFinite, beyond which a result is an
\* infinity.  The three values that are not finite are integers outside that
\* range.  Pixel coordinates stay where the arithmetic is exact, here as in the
\* program.
SignificantBits == 13
ExponentSpan == 2

RECURSIVE Pow2(_)
Pow2(n) == IF n = 0 THEN 1 ELSE 2 * Pow2(n - 1)

MaxFinite == (Pow2(SignificantBits) - 1) * Pow2(ExponentSpan)

PosInfinity == 1000000
NegInfinity == -1000000
NaN == 2000000

\* Number.isFinite
isFinite(x) == x \notin {PosInfinity, NegInfinity, NaN}

\* The first integer that SignificantBits bits do not hold.
Exact == Pow2(SignificantBits)

\* The double nearest to the exact result v of an operation on finite numbers.
roundToDouble(v) ==
  IF -Exact < v /\ v < Exact THEN v ELSE
  LET a == Abs(v)
      e == CHOOSE k \in 0..(ExponentSpan + 3) :
             /\ a < Pow2(SignificantBits + k)
             /\ k > 0 => a >= Pow2(SignificantBits + k - 1)
      q == Pow2(e)
      m == a \div q
      rest == a % q
      up == 2 * rest > q \/ (2 * rest = q /\ m % 2 = 1)
      r == (IF up THEN m + 1 ELSE m) * q
  IN  IF r > MaxFinite THEN (IF v < 0 THEN NegInfinity ELSE PosInfinity)
      ELSE IF v < 0 THEN -r ELSE r

\* a + b
plus(a, b) ==
  IF a = NaN \/ b = NaN THEN NaN
  ELSE IF ~isFinite(a) THEN (IF ~isFinite(b) /\ a # b THEN NaN ELSE a)
  ELSE IF ~isFinite(b) THEN b
  ELSE roundToDouble(a + b)

\* -a
negate(a) ==
  IF a = NaN THEN NaN
  ELSE IF a = PosInfinity THEN NegInfinity
  ELSE IF a = NegInfinity THEN PosInfinity
  ELSE -a

\* The difference counted as a number of pixels, both ends included.
minusInclusive(a, b) == plus(plus(a, negate(b)), 1)

\* a - b
minus(a, b) == plus(a, negate(b))

\* a * b.  A product beyond twice MaxFinite is an infinity whatever its rounding.
times(a, b) ==
  IF a = NaN \/ b = NaN THEN NaN
  ELSE IF ~isFinite(a) \/ ~isFinite(b)
    THEN (IF a = 0 \/ b = 0 THEN NaN
          ELSE IF (a < 0) = (b < 0) THEN PosInfinity ELSE NegInfinity)
  ELSE IF a = 0 \/ b = 0 THEN 0
  ELSE IF Abs(b) > (2 * MaxFinite) \div Abs(a)
    THEN (IF (a < 0) = (b < 0) THEN PosInfinity ELSE NegInfinity)
  ELSE roundToDouble(a * b)

\* Math.max(0, v); Math.max(0, NaN) is NaN
max0(v) == Max2(0, v)

-----------------------------------------------------------------------------
(* Geometry kernel, geom.ts:1-124.                                          *)

\* type Rect = { x, y, width, height }; fin is FALSE when a field is not finite.
MkRect(x, y, w, h) == [x |-> x, y |-> y, width |-> w, height |-> h, fin |-> TRUE]

\* Number.isFinite on the four fields of a rect (the filter of geom.ts:82-84).
isFiniteRect(r) == r.fin

\* The intersection over the sum of the two areas.
iouOverSum(a, b) ==
  Const(plus(a.x, a.width), LAMBDA ax2 :
  Const(plus(a.y, a.height), LAMBDA ay2 :
  Const(plus(b.x, b.width), LAMBDA bx2 :
  Const(plus(b.y, b.height), LAMBDA by2 :
  Const(max0(minus(Min2(ax2, bx2), Max2(a.x, b.x))), LAMBDA ix :
  Const(max0(minus(Min2(ay2, by2), Max2(a.y, b.y))), LAMBDA iy :
  Const(times(ix, iy), LAMBDA inter :
  Const(times(a.width, a.height), LAMBDA areaA :
  Const(times(b.width, b.height), LAMBDA areaB :
  Const(plus(areaA, areaB), LAMBDA denom :
    IF denom # NaN /\ denom <= 0 THEN <<0, 1>> ELSE <<inter, denom>>))))))))))

\* iou(a, b) as the ratio inter / denom of two doubles; <<0, 1>> when denom <= 0
\* (a comparison that is false for NaN).
iou(a, b) ==
  Const(plus(a.x, a.width), LAMBDA ax2 :
  Const(plus(a.y, a.height), LAMBDA ay2 :
  Const(plus(b.x, b.width), LAMBDA bx2 :
  Const(plus(b.y, b.height), LAMBDA by2 :
  Const(max0(minus(Min2(ax2, bx2), Max2(a.x, b.x))), LAMBDA ix :
  Const(max0(minus(Min2(ay2, by2), Max2(a.y, b.y))), LAMBDA iy :
  Const(times(ix, iy), LAMBDA inter :
  Const(times(a.width, a.height), LAMBDA areaA :
  Const(times(b.width, b.height), LAMBDA areaB :
  Const(minus(plus(areaA, areaB), inter), LAMBDA denom :
    IF denom # NaN /\ denom <= 0 THEN <<0, 1>> ELSE <<inter, denom>>))))))))))

\* inter / denom >= t / 100 for a ratio returned by iou (denom > 0 or NaN):
\* NaN compares false, Infinity / Infinity is NaN, a finite number over
\* Infinity is 0.
ratioAtLeast(q, t) ==
  IF q[1] = NaN \/ q[2] = NaN THEN FALSE
  ELSE IF ~isFinite(q[1]) THEN isFinite(q[2])
  ELSE IF ~isFinite(q[2]) THEN t <= 0
  ELSE q[1] * 100 >= t * q[2]

\* edgeDistance(a, b), squared: Math.hypot(dx, dy)^2, 0 on overlap or touch.
edgeDistanceSq(a, b) ==
  LET ax2 == a.x + a.width
      ay2 == a.y + a.height
      bx2 == b.x + b.width
      by2 == b.y + b.height
      dx == Max2(0, Max2(b.x - ax2, a.x - bx2))
      dy == Max2(0, Max2(b.y - ay2, a.y - by2))
  IN  IF dx = 0 /\ dy = 0 THEN 0 ELSE dx * dx + dy * dy

unionMissesB(a, b) ==
  LET x1 == Min2(a.x, b.x)
      y1 == Min2(a.y, b.y)
      x2 == a.x + a.width
      y2 == a.y + a.height
  IN  MkRect(x1, y1, Max2(0, x2 - x1), Max2(0, y2 - y1))

union(a, b) ==
  LET x1 == Min2(a.x, b.x)
      y1 == Min2(a.y, b.y)
      x2 == Max2(a.x + a.width, b.x + b.width)
      y2 == Max2(a.y + a.height, b.y + b.height)
  IN  MkRect(x1, y1, Max2(0, x2 - x1), Max2(0, y2 - y1))

\* const iouThresh = Math.max(0, Math.min(1, options.iouThresh)), in hundredths.
clampIou(o) == Max2(0, Min2(100, o.iouThresh))

\* const distThresh = Math.max(0, options.distancePx).
clampDist(o) == Max2(0, o.distancePx)

\* iou(r1, r2) >= iouThresh
overlap(r1, r2, o) == ratioAtLeast(iou(r1, r2), clampIou(o))

nearStrict(r1, r2, o) == edgeDistanceSq(r1, r2) < clampDist(o) * clampDist(o)

\* edgeDistance(r1, r2) <= distThresh
near(r1, r2, o) == edgeDistanceSq(r1, r2) <= clampDist(o) * clampDist(o)

\* if (overlap || near) of geom.ts:101-103
mergeable(r1, r2, o) == overlap(r1, r2, o) \/ near(r1, r2, o)

\* find(x) with its path compression: <<root, parent after the call>>.
RECURSIVE find(_, _)
find(parent, x) ==
  IF parent[x] = x THEN <<x, parent>>
  ELSE LET r == find(parent, parent[x])
       IN  <<r[1], [r[2] EXCEPT ![x] = r[1]]>>

uniteChild(parent, a, b) ==
  LET fa == find(parent, a)
      fb == find(fa[2], b)
  IN  IF fa[1] # fb[1] THEN [fb[2] EXCEPT ![b] = fa[1]] ELSE fb[2]

\* unite(a, b): parent[find(b)] = find(a) when the roots differ.
unite(parent, a, b) ==
  LET fa == find(parent, a)
      fb == find(fa[2], b)
  IN  IF fa[1] # fb[1] THEN [fb[2] EXCEPT ![fb[1]] = fa[1]] ELSE fb[2]

\* The double loop of geom.ts:97-105 from pair (i, j) on; indices start at 1.
RECURSIVE uniteLoop(_, _, _, _, _)
uniteLoop(parent, input, o, i, j) ==
  LET n == Len(input)
  IN  IF i > n THEN parent
      ELSE IF j > n THEN uniteLoop(parent, input, o, i + 1, i + 2)
      ELSE uniteLoop(
             IF mergeable(input[i], input[j], o)
               THEN unite(parent, i, j) ELSE parent,
             input, o, i, j + 1)

\* The loop of geom.ts:109-114: the root of every index, in index order.
RECURSIVE rootsFrom(_, _, _)
rootsFrom(parent, i, n) ==
  IF i > n THEN <<>>
  ELSE LET f == find(parent, i)
       IN  <<f[1]>> \o rootsFrom(f[2], i + 1, n)

\* for (k = 1; k < items.length; k++) acc = union(acc, items[k])
RECURSIVE foldUnion(_, _, _)
foldUnion(acc, items, k) ==
  IF k > Len(items) THEN acc ELSE foldUnion(union(acc, items[k]), items, k + 1)

\* groups.forEach in the Map's insertion order: a group is listed where its
\* root is first met, and holds its members in index order.
RECURSIVE mergeGroups(_, _, _)
mergeGroups(input, roots, i) ==
  IF i > Len(input) THEN <<>>
  ELSE IF \E k \in 1..(i - 1) : roots[k] = roots[i]
       THEN mergeGroups(input, roots, i + 1)
       ELSE LET idx == {k \in 1..Len(input) : roots[k] = roots[i]}
                items == [m \in 1..Cardinality(idx) |->
                            input[CHOOSE k \in idx :
                                    Cardinality({q \in idx : q < k}) = m - 1]]
            IN  <<foldUnion(items[1], items, 2)>> \o mergeGroups(input, roots, i + 1)

\* rects.filter(finite)
RECURSIVE filterFinite(_)
filterFinite(rs) ==
  IF rs = <<>> THEN <<>>
  ELSE IF isFiniteRect(Head(rs)) THEN <<Head(rs)>> \o filterFinite(Tail(rs))
       ELSE filterFinite(Tail(rs))

\* The union-find of geom.ts:88-114 over the filtered input: root of each index.
clusterRoots(input, o) ==
  LET n == Len(input)
      parent == uniteLoop([i \in 1..n |-> i], input, o, 1, 2)
  IN  rootsFrom(parent, 1, n)

nmsMergeRects(rs, o) ==
  LET input == filterFinite(rs)
  IN  IF Len(input) <= 1 THEN input
      ELSE mergeGroups(input, clusterRoots(input, o), 1)

-----------------------------------------------------------------------------
(* Redaction verification, metadata.ts:37-119 (lib/export/validate).        *)
(* A pixel is <<r, g, b>>; the alpha byte is never read.  The pixels used  *)
(* are grays (r = g = b), whose luma is the integer r: the weights add up   *)
(* to 1.                                                                    *)

\* luma(r, g, b) = 0.2126 r + 0.7152 g + 0.0722 b
luma(px) == (2126 * px[1] + 7152 * px[2] + 722 * px[3]) \div 10000

\* data[(yy * width + xx) * 4 ..], for 0-based xx, yy
pixelAt(img, stride, xx, yy) == img.data[yy * stride + xx + 1]

RECURSIVE SumOver(_, _)
SumOver(f, S) ==
  IF S = {} THEN 0
  ELSE LET e == CHOOSE e \in S : TRUE IN f[e] + SumOver(f, S \ {e})

\* regionStats: mean is sum / count and variance is
\* (sum2 / count) - mean^2 = (sum2 * count - sum^2) / count^2, both as ratios.
regionStats(img, x, y, w, h) ==
  LET x1 == Max2(0, Min2(img.width, x))
      y1 == Max2(0, Min2(img.height, y))
      x2 == Max2(x1, Min2(img.width, x + w))
      y2 == Max2(y1, Min2(img.height, y + h))
  IN  IF x1 >= x2 \/ y1 >= y2
        THEN [min |-> 0, max |-> 0, mean |-> <<0, 1>>, variance |-> <<0, 1>>, count |-> 0]
        ELSE LET cells == (x1..(x2 - 1)) \X (y1..(y2 - 1))
                 Y == [c \in cells |-> luma(pixelAt(img, img.width, c[1], c[2]))]
                 count == Cardinality(cells)
                 sum == SumOver(Y, cells)
                 sum2 == SumOver([c \in cells |-> Y[c] * Y[c]], cells)
             IN  [min |-> Min2(255, SetMin({Y[c] : c \in cells})),
                  max |-> Max2(0, SetMax({Y[c] : c \in cells})),
                  mean |-> <<sum, count>>,
                  variance |-> <<sum2 * count - sum * sum, count * count>>,
                  count |-> count]

isUniformRegionStrict(img, x, y, w, h, tolerance) ==
  LET st == regionStats(img, x, y, w, h)
  IN  st.max - st.min < tolerance

\* isUniformRegion: max - min <= tolerance
isUniformRegion(img, x, y, w, h, tolerance) ==
  LET st == regionStats(img, x, y, w, h)
  IN  st.max - st.min <= tolerance

\* The three cases of the switch of assertIrreversible over the w x h overlap.
irreversibleBy(b, a, tl, w, h) ==
  CASE tl = "blackout" ->
         LET uni == isUniformRegion(a, 0, 0, w, h, 2)
             stats == regionStats(a, 0, 0, w, h)
         IN  uni /\ stats.mean[1] < 5 * stats.mean[2]
    [] tl = "blur" ->
         LET vb == regionStats(b, 0, 0, w, h).variance
             va == regionStats(a, 0, 0, w, h).variance
         IN  IF va[2] = vb[2] THEN 10 * va[1] < 6 * vb[1]
             ELSE 10 * va[1] * vb[2] < 6 * vb[1] * va[2]
    [] tl = "pixelate" ->
         LET cells == (0..(w - 1)) \X (0..(h - 1))
             d == [c \in cells |->
                     Abs(luma(pixelAt(b, b.width, c[1], c[2]))
                         - luma(pixelAt(a, a.width, c[1], c[2])))]
             diff == SumOver(d, cells)
             cnt == Cardinality(cells)
         IN  IF cnt > 0 THEN diff > 5 * cnt ELSE FALSE

assertIrreversibleNoEmptyCase(b, a, tl) ==
  irreversibleBy(b, a, tl, Min2(b.width, a.width), Min2(b.height, a.height))

assertIrreversible(b, a, tl) ==
  LET w == Min2(b.width, a.width)
      h == Min2(b.height, a.height)
  IN  IF w = 0 \/ h = 0 THEN TRUE ELSE irreversibleBy(b, a, tl, w, h)

-----------------------------------------------------------------------------
(* Inputs of the verification.                                              *)

MaxDim == 2

Tools == {"blackout", "blur", "pixelate"}

\* Fills of validate.test.ts (black, 10, 40, 200) and mid-gray.
FillChoices ==
  { <<0, 0, 0>>, <<10, 10, 10>>, <<40, 40, 40>>, <<128, 128, 128>>, <<200, 200, 200>> }

\* makeImageData(width, height, fill), optionally with one bright pixel
\* injected as in validate.test.ts:31-34 (spot = 0: none; else its 1-based index).
makeImageData(width, height, fill, spot) ==
  [width |-> width, height |-> height,
   data |-> [i \in 1..(width * height) |-> IF i = spot THEN <<255, 255, 255>> ELSE fill]]

\* Two-pixel rows of dark grays around the limits of the blackout test
\* (max - min against 2, mean against 5).
NearBlackChoices ==
  { [width |-> 2, height |-> 1, data |-> << <<p[1], p[1], p[1]>>, <<p[2], p[2], p[2]>> >>] :
      p \in { <<0, 2>>, <<0, 3>>, <<3, 5>>, <<4, 6>>, <<4, 4>>, <<5, 5>> } }

ImageChoices ==
  { makeImageData(w, h, f, sp) :
      w \in 0..MaxDim, h \in 0..MaxDim, f \in FillChoices, sp \in {0, 1, MaxDim} }
    \cup NearBlackChoices

VerifyInit ==
  /\ before \in ImageChoices
  /\ after \in ImageChoices
  /\ vtool \in Tools
  /\ vdone = FALSE
  /\ verdict = FALSE

\* const ok = assertIrreversible(before, after, tool)  (part_008:265)
Verify ==
  /\ ~vdone
  /\ vdone' = TRUE
  /\ verdict' = assertIrreversible(before, after, vtool)
  /\ UNCHANGED <<before, after, vtool>>
  /\ UNCHANGED notVerify

VerifyNext == Verify

-----------------------------------------------------------------------------
(* Inputs of the geometry kernel.                                           *)

MaxRects == 3

\* Rects of geom.test.ts:36-37 and 51-52, an L-shaped pair with a box in its
\* corner, a zero-area rect and a rect with a non-finite field.
RectChoices ==
  { MkRect(10, 10, 40, 20), MkRect(30, 15, 40, 20),
    MkRect(0, 0, 20, 20), MkRect(25, 0, 20, 20),
    MkRect(100, 100, 10, 30), MkRect(100, 130, 30, 10), MkRect(125, 100, 5, 5),
    MkRect(60, 60, 0, 0),
    [x |-> 0, y |-> 0, width |-> 0, height |-> 0, fin |-> FALSE] }

\* iouThresh in hundredths (0.15 of AutoDetectPanel.tsx:59, one below 0 and one
\* above 1); distancePx (6 of geom.test.ts:55, a smaller one, a negative one).
IouChoices == {-50, 15, 150}
DistChoices == {-1, 4, 6}

GeomInit ==
  /\ rects \in SeqsUpTo(RectChoices, MaxRects)
  /\ options \in [iouThresh : IouChoices, distancePx : DistChoices]
  /\ merged = <<>>
  /\ merged2 = <<>>
  /\ gstage = "input"

\* A caller merges the list (AutoDetectPanel.tsx:59).
Merge ==
  /\ gstage = "input"
  /\ merged' = nmsMergeRects(rects, options)
  /\ gstage' = "once"
  /\ UNCHANGED <<rects, options, merged2>>
  /\ UNCHANGED notGeom

\* The result is merged again with the same thresholds.
MergeAgain ==
  /\ gstage = "once"
  /\ merged2' = nmsMergeRects(merged, options)
  /\ gstage' = "twice"
  /\ UNCHANGED <<rects, options, merged>>
  /\ UNCHANGED notGeom

GeomNext == Merge \/ MergeAgain

-----------------------------------------------------------------------------
(* Detector clients.  Three client modules export detectBoxesFromCanvas and *)
(* disposeDetectorWorker:                                                   *)
(*   "ocr"        detectorClient.ts:1-85,   worker ocrWorker.ts:1-180       *)
(*   "heuristic"  geom.ts:127-271,          worker ocrWorker.ts:182-525     *)
(*   "provider"   detectorClient.ts:88-275, HeuristicTextDetector (277-389) *)
(* The id of a call (genId) is the number of the call.  A terminated worker *)
(* handles nothing and delivers nothing: terminate() empties inbox and      *)
(* outbox, and a message posted to a terminated worker is dropped.          *)

MaxReq == 2

Reqs == 1..MaxReq
Clients == {"ocr", "heuristic", "provider"}

Step(kind, id, ok) == [kind |-> kind, id |-> id, ok |-> ok]

\* getWorker(): <<the instance returned, the instances constructed so far>>
getWorker(w, n) == IF w # 0 THEN <<w, n>> ELSE <<n + 1, n + 1>>

\* const entry = pending.get(data.id); if (!entry) return
entryFor(p, id) == IF id \in p THEN {id} ELSE {}

\* A handler that drops the whole Map instead of the one entry.
deleteEvery(p, id) == {}

\* pending.delete(data.id)
deleteEntry(p, id) == p \ {id}

\* resolve / reject of a promise: only a pending promise changes
settled(cur, outcome) == IF cur = "pending" THEN outcome ELSE cur

\* entry.resolve(..) / entry.reject(..) on the entries S; the awaiting call returns
settleEach(S, outcome, why) ==
  /\ promise' = [r \in Reqs |-> IF r \in S THEN settled(promise[r], outcome) ELSE promise[r]]
  /\ reason' = [r \in Reqs |->
                  IF r \in S /\ promise[r] = "pending" /\ outcome = "rejected"
                    THEN why ELSE reason[r]]
  /\ settles' = [r \in Reqs |-> IF r \in S THEN settles[r] + 1 ELSE settles[r]]
  /\ pc' = [r \in Reqs |-> IF r \in S THEN "done" ELSE pc[r]]

ClientStart(c) ==
  /\ client = c
  /\ workerInstance = 0
  /\ workerCount = 0
  /\ provider = FALSE
  /\ pending = {}
  /\ pc = [r \in Reqs |-> "idle"]
  /\ rworker = [r \in Reqs |-> 0]
  /\ bitmap = [r \in Reqs |-> "none"]
  /\ promise = [r \in Reqs |-> "none"]
  /\ reason = [r \in Reqs |-> "none"]
  /\ settles = [r \in Reqs |-> 0]
  /\ detected = [r \in Reqs |-> "no"]
  /\ inbox = {}
  /\ outbox = {}
  /\ last = Step("init", 0, FALSE)

ClientInit == \E c \in Clients : ClientStart(c)

\* detectBoxesFromCanvas up to its first await.  The ocr client takes the worker
\* first (detectorClient.ts:63-65); the others only start making the bitmap.
DetectStart(r) ==
  /\ pc[r] = "idle"
  /\ \A q \in Reqs : q < r => pc[q] # "idle"
  /\ pc' = [pc EXCEPT ![r] = "bitmap"]
  /\ promise' = [promise EXCEPT ![r] = "pending"]
  /\ IF client = "ocr"
       THEN LET g == getWorker(workerInstance, workerCount) IN
            /\ workerInstance' = g[1]
            /\ workerCount' = g[2]
            /\ rworker' = [rworker EXCEPT ![r] = g[1]]
       ELSE UNCHANGED <<workerInstance, workerCount, rworker>>
  /\ last' = Step("start", r, TRUE)
  /\ UNCHANGED <<client, provider, pending, bitmap, reason, settles, detected, inbox, outbox>>
  /\ UNCHANGED notClient

\* The bitmap is there: the rest of detectBoxesFromCanvas up to its next await.
\*   ocr        pending.set, postMessage to the worker taken at the start (67-71)
\*   heuristic  getWorker, pending.set, postMessage (geom.ts:243-251)
\*   provider   getProvider, prov.detect(imageBitmap, ..) (detectorClient.ts:239-242)
BitmapReady(r) ==
  /\ pc[r] = "bitmap"
  /\ CASE client = "ocr" ->
            /\ pending' = pending \cup {r}
            /\ inbox' = IF rworker[r] = workerInstance THEN inbox \cup {r} ELSE inbox
            /\ bitmap' = [bitmap EXCEPT ![r] = "transferred"]
            /\ pc' = [pc EXCEPT ![r] = "posted"]
            /\ UNCHANGED <<workerInstance, workerCount, rworker, provider>>
       [] client = "heuristic" ->
            LET g == getWorker(workerInstance, workerCount) IN
            /\ workerInstance' = g[1]
            /\ workerCount' = g[2]
            /\ rworker' = [rworker EXCEPT ![r] = g[1]]
            /\ pending' = pending \cup {r}
            /\ inbox' = inbox \cup {r}
            /\ bitmap' = [bitmap EXCEPT ![r] = "transferred"]
            /\ pc' = [pc EXCEPT ![r] = "posted"]
            /\ UNCHANGED provider
       [] client = "provider" ->
            /\ provider' = TRUE
            /\ bitmap' = [bitmap EXCEPT ![r] = "open"]
            /\ pc' = [pc EXCEPT ![r] = "detecting"]
            /\ UNCHANGED <<workerInstance, workerCount, rworker, pending, inbox>>
  /\ last' = Step("bitmap", r, TRUE)
  /\ UNCHANGED <<client, promise, reason, settles, detected, outbox>>
  /\ UNCHANGED notClient

\* createImageBitmap / createBitmapSafe rejects: the call throws before it
\* registers anything.
BitmapFails(r) ==
  /\ pc[r] = "bitmap"
  /\ settleEach({r}, "rejected", "bitmap")
  /\ last' = Step("bitmap", r, FALSE)
  /\ UNCHANGED <<client, workerInstance, workerCount, provider, pending, rworker, bitmap,
                 detected, inbox, outbox>>
  /\ UNCHANGED notClient

\* The answers a worker can give.  The OCR worker never assigns `ocr`, so its
\* ensureReady always throws (ocrWorker.ts:25, 133-135) and it answers ok: false;
\* the heuristic worker answers ok: true unless detectHeuristic throws.
workerOutcomes(c) == IF c = "ocr" THEN {FALSE} ELSE BOOLEAN

\* self.onmessage of the worker: detect, close the bitmap, post the answer.  The
\* OCR worker closes on both paths (ocrWorker.ts:162-164, 169-171), the heuristic
\* worker in its finally (ocrWorker.ts:520-522).
WorkerHandle(r, ok) ==
  /\ client \in {"ocr", "heuristic"}
  /\ r \in inbox
  /\ ok \in workerOutcomes(client)
  /\ inbox' = inbox \ {r}
  /\ detected' = [detected EXCEPT ![r] = IF ok THEN "ok" ELSE "fail"]
  /\ bitmap' = [bitmap EXCEPT ![r] = "closed"]
  /\ outbox' = outbox \cup {[id |-> r, ok |-> ok]}
  /\ last' = Step("handle", r, ok)
  /\ UNCHANGED <<client, workerInstance, workerCount, provider, pending, pc, rworker,
                 promise, reason, settles>>
  /\ UNCHANGED notClient

\* prov.detect(imageBitmap, ..) returns or throws (detectorClient.ts:242, 293-388);
\* neither detect nor detectBoxesFromCanvas closes the bitmap.
ProviderDetect(r, ok) ==
  /\ client = "provider"
  /\ pc[r] = "detecting"
  /\ detected' = [detected EXCEPT ![r] = IF ok THEN "ok" ELSE "fail"]
  /\ settleEach({r}, IF ok THEN "resolved" ELSE "rejected", "detect")
  /\ last' = Step("detect", r, ok)
  /\ UNCHANGED <<client, workerInstance, workerCount, provider, pending, rworker, bitmap,
                 inbox, outbox>>
  /\ UNCHANGED notClient

\* worker.onmessage (detectorClient.ts:32-42, geom.ts:161-168)
OnMessage(m) ==
  /\ m \in outbox
  /\ outbox' = outbox \ {m}
  /\ IF entryFor(pending, m.id) = {}
       THEN UNCHANGED <<pending, promise, reason, settles, pc>>
       ELSE /\ pending' = deleteEntry(pending, m.id)
            /\ settleEach(entryFor(pending, m.id),
                          IF m.ok THEN "resolved" ELSE "rejected", "detect")
  /\ last' = Step("message", m.id, m.ok)
  /\ UNCHANGED <<client, workerInstance, workerCount, provider, rworker, bitmap, detected,
                 inbox>>
  /\ UNCHANGED notClient

\* worker.onerror (detectorClient.ts:44-49, geom.ts:169-174): every pending request
\* is rejected, the Map is cleared, the worker is kept.
OnError ==
  /\ client \in {"ocr", "heuristic"}
  /\ workerInstance # 0
  /\ settleEach(pending, "rejected", "worker")
  /\ pending' = {}
  /\ last' = Step("error", 0, FALSE)
  /\ UNCHANGED <<client, workerInstance, workerCount, provider, rworker, bitmap, detected,
                 inbox, outbox>>
  /\ UNCHANGED notClient

\* worker.onmessageerror (detectorClient.ts:51-55), ocr client only
OnMessageError ==
  /\ client = "ocr"
  /\ workerInstance # 0
  /\ settleEach(pending, "rejected", "deserialization")
  /\ pending' = {}
  /\ last' = Step("messageerror", 0, FALSE)
  /\ UNCHANGED <<client, workerInstance, workerCount, provider, rworker, bitmap, detected,
                 inbox, outbox>>
  /\ UNCHANGED notClient

\* disposeDetectorWorker
\*   ocr        terminate, reject every pending request, clear (detectorClient.ts:74-83)
\*   heuristic  terminate, clear                                (geom.ts:265-269)
\*   provider   provider = null                                 (detectorClient.ts:271-273)
disposeDetectorWorker ==
  /\ CASE client = "ocr" ->
            /\ workerInstance' = 0
            /\ inbox' = {}
            /\ outbox' = {}
            /\ settleEach(pending, "rejected", "disposed")
            /\ pending' = {}
            /\ UNCHANGED provider
       [] client = "heuristic" ->
            /\ workerInstance' = 0
            /\ inbox' = {}
            /\ outbox' = {}
            /\ pending' = {}
            /\ UNCHANGED <<provider, promise, reason, settles, pc>>
       [] client = "provider" ->
            /\ provider' = FALSE
            /\ UNCHANGED <<workerInstance, inbox, outbox, pending, promise, reason,
                           settles, pc>>
  /\ last' = Step("dispose", 0, FALSE)
  /\ UNCHANGED <<client, workerCount, rworker, bitmap, detected>>
  /\ UNCHANGED notClient

ClientNext ==
  \/ \E r \in Reqs : DetectStart(r)
  \/ \E r \in Reqs : BitmapReady(r)
  \/ \E r \in Reqs : BitmapFails(r)
  \/ \E r \in Reqs, ok \in BOOLEAN : WorkerHandle(r, ok)
  \/ \E r \in Reqs, ok \in BOOLEAN : ProviderDetect(r, ok)
  \/ \E m \in outbox : OnMessage(m)
  \/ OnError
  \/ OnMessageError
  \/ disposeDetectorWorker

-----------------------------------------------------------------------------
(* Canvas operations used by ManualRedactor (part_008).  A canvas and an    *)
(* ImageData are [width, height, data]; a pixel outside the canvas reads as *)
(* transparent black and is not written.                                    *)

UndoLimit == 50
BLUR_RADIUS == 10
PASSES == 2
BlockSize == 10

Transparent == <<0, 0, 0>>

inCanvas(cv, xx, yy) == xx >= 0 /\ xx < cv.width /\ yy >= 0 /\ yy < cv.height

\* ctx.getImageData(x, y, w, h)
getImageData(cv, x, y, w, h) ==
  [width |-> w, height |-> h,
   data |-> [i \in 1..(w * h) |->
               LET xx == x + ((i - 1) % w)
                   yy == y + ((i - 1) \div w)
               IN  IF inCanvas(cv, xx, yy) THEN pixelAt(cv, cv.width, xx, yy) ELSE Transparent]]

\* ctx.putImageData(img, x, y)
putImageData(cv, img, x, y) ==
  [cv EXCEPT !.data =
     [i \in 1..(cv.width * cv.height) |->
        LET xx == (i - 1) % cv.width
            yy == (i - 1) \div cv.width
        IN  IF xx >= x /\ xx < x + img.width /\ yy >= y /\ yy < y + img.height
              THEN pixelAt(img, img.width, xx - x, yy - y)
              ELSE cv.data[i]]]

\* ctx.fillStyle = "#000000"; ctx.fillRect(x, y, w, h)
fillRect(cv, x, y, w, h) ==
  [cv EXCEPT !.data =
     [i \in 1..(cv.width * cv.height) |->
        LET xx == (i - 1) % cv.width
            yy == (i - 1) \div cv.width
        IN  IF xx >= x /\ xx < x + w /\ yy >= y /\ yy < y + h
              THEN <<0, 0, 0>>
              ELSE cv.data[i]]]

\* Math.round(sum / count) for sum >= 0, count > 0
roundDiv(sum, count) == (2 * sum + count) \div (2 * count)

\* The rounded mean of each channel over the cells of an ImageData.
meanPixel(img, cells) ==
  [k \in 1..3 |->
     roundDiv(SumOver([c \in cells |-> pixelAt(img, img.width, c[1], c[2])[k]], cells),
              Cardinality(cells))]

\* boxBlur(imageData, radius): every pixel becomes the rounded mean of the pixels
\* of the original within radius that lie inside the image.
boxBlur(img, radius) ==
  [img EXCEPT !.data =
     [i \in 1..(img.width * img.height) |->
        LET x == (i - 1) % img.width
            y == (i - 1) \div img.width
            win == (Max2(0, x - radius)..Min2(img.width - 1, x + radius))
                   \X (Max2(0, y - radius)..Min2(img.height - 1, y + radius))
        IN  meanPixel(img, win)]]

RECURSIVE blurPasses(_, _)
blurPasses(img, n) == IF n = 0 THEN img ELSE blurPasses(boxBlur(img, BLUR_RADIUS), n - 1)

\* pixelate(ctx, x, y, width, height, blockSize): each block of the region is read
\* with getImageData, averaged and written back; the blocks are disjoint.
pixelate(cv, x, y, w, h, blockSize) ==
  [cv EXCEPT !.data =
     [i \in 1..(cv.width * cv.height) |->
        LET xx == (i - 1) % cv.width
            yy == (i - 1) \div cv.width
        IN  IF xx >= x /\ xx < x + w /\ yy >= y /\ yy < y + h
              THEN LET px == x + ((xx - x) \div blockSize) * blockSize
                       py == y + ((yy - y) \div blockSize) * blockSize
                       bw == Min2(blockSize, x + w - px)
                       bh == Min2(blockSize, y + h - py)
                       block == getImageData(cv, px, py, bw, bh)
                   IN  meanPixel(block, (0..(bw - 1)) \X (0..(bh - 1)))
              ELSE cv.data[i]]]

\* The switch of applyEffect (part_008:236-258) and of onApply (part_008:597-615).
redact(cv, rect, tl) ==
  CASE tl = "blackout" -> fillRect(cv, rect.x, rect.y, rect.width, rect.height)
    [] tl = "blur" ->
         putImageData(cv,
                      blurPasses(getImageData(cv, rect.x, rect.y, rect.width, rect.height),
                                 PASSES),
                      rect.x, rect.y)
    [] tl = "pixelate" -> pixelate(cv, rect.x, rect.y, rect.width, rect.height, BlockSize)

\* A check that undoes the write and throws when it fails.
devCheckBlocking(cv, bef, rect, tl, throws) ==
  IF throws
    THEN [canvas |-> cv, warned |-> 0, thrown |-> FALSE]
    ELSE IF assertIrreversible(bef, getImageData(cv, rect.x, rect.y, rect.width, rect.height), tl)
           THEN [canvas |-> cv, warned |-> 0, thrown |-> FALSE]
           ELSE [canvas |-> putImageData(cv, bef, rect.x, rect.y), warned |-> 1, thrown |-> TRUE]

\* The dev-only block after the write (part_008:261-270, 616-624):
\*   try { after = getImageData(..); ok = assertIrreversible(before, after, tool);
\*         if (!ok) console.warn(..) } catch {}
\* `throws` says that something inside the try throws.
devCheck(cv, bef, rect, tl, throws) ==
  IF throws
    THEN [canvas |-> cv, warned |-> 0, thrown |-> FALSE]
    ELSE IF assertIrreversible(bef, getImageData(cv, rect.x, rect.y, rect.width, rect.height), tl)
           THEN [canvas |-> cv, warned |-> 0, thrown |-> FALSE]
           ELSE [canvas |-> cv, warned |-> 1, thrown |-> FALSE]

\* One redaction with its dev-only check: before, the write, the check.
redactChecked(cv, rect, tl, isDev, throws) ==
  LET bef == getImageData(cv, rect.x, rect.y, rect.width, rect.height)
      written == redact(cv, rect, tl)
  IN  IF isDev
        THEN devCheck(written, bef, rect, tl, throws)
        ELSE [canvas |-> written, warned |-> 0, thrown |-> FALSE]

\* A push that never drops a snapshot.
pushUnbounded(stack, cv) == Append(stack, cv)

\* pushUndoSnapshot (part_008:53-65)
pushUndoSnapshot(stack, cv) ==
  LET s == Append(stack, cv)
  IN  IF Len(s) > UndoLimit THEN Tail(s) ELSE s

-----------------------------------------------------------------------------
(* AutoDetectPanel (AutoDetectPanel.tsx) inside ManualRedactor (part_008).  *)
(* The merge checkbox and the distance slider are left at their initial     *)
(* values; a detection request is seen from the panel as a promise that     *)
(* resolves with polygons or rejects.                                       *)

MaxDetect == 2
MaxOps == 1

mergeEnabled == TRUE
mergeDistance == 6

\* Every pair of the loop, finite or not.
everyPair(poly) == {i \in 1..(Len(poly) - 1) : i % 2 = 1}

\* The pairs (poly[i], poly[i + 1]) of the loop of polyToRect that pass
\* Number.isFinite(x) && Number.isFinite(y)
finitePairs(poly) ==
  {i \in 1..(Len(poly) - 1) : i % 2 = 1 /\ isFinite(poly[i]) /\ isFinite(poly[i + 1])}

\* polyToRect (geom.ts:4-28) on an array of numbers
polyToRect(poly) ==
  IF Len(poly) < 4 \/ Len(poly) % 2 # 0
    THEN MkRect(0, 0, 0, 0)
    ELSE LET xs == {poly[i] : i \in finitePairs(poly)}
             ys == {poly[i + 1] : i \in finitePairs(poly)}
         IN  IF finitePairs(poly) = {}
               THEN MkRect(0, 0, 0, 0)
               ELSE LET width == max0(minus(SetMax(xs), SetMin(xs)))
                        height == max0(minus(SetMax(ys), SetMin(ys)))
                    IN  [MkRect(SetMin(xs), SetMin(ys), width, height)
                           EXCEPT !.fin = isFinite(width) /\ isFinite(height)]

\* polyToRect on any argument: !Array.isArray(poly) gives the zero rect (line 5)
polyToRectOf(arg) ==
  IF ~arg.isArray THEN MkRect(0, 0, 0, 0) ELSE polyToRect(arg.values)

\* const p = Number.isFinite(pad) ? pad : 0
padOf(pad) == IF isFinite(pad) THEN pad ELSE 0

\* The pad added to the width and the height once, not on both sides.
inflateOneSide(r, pad) ==
  [r EXCEPT !.x = minus(r.x, padOf(pad)), !.y = minus(r.y, padOf(pad)),
            !.width = max0(plus(r.width, padOf(pad))),
            !.height = max0(plus(r.height, padOf(pad)))]

\* inflateRect (geom.ts:31-38) on a rect of finite fields
inflateRect(r, pad) ==
  LET p == padOf(pad)
      x == minus(r.x, p)
      y == minus(r.y, p)
      width == max0(plus(r.width, plus(p, p)))
      height == max0(plus(r.height, plus(p, p)))
  IN  [r EXCEPT !.x = x, !.y = y, !.width = width, !.height = height,
                !.fin = isFinite(x) /\ isFinite(y) /\ isFinite(width) /\ isFinite(height)]

positiveArea(r) == r.width > 0 /\ r.height > 0

\* polys.map((p) => polyToRect(p)).filter((r) => r.width > 0 && r.height > 0)
rectsOfPolys(polys) == SelectSeq([i \in 1..Len(polys) |-> polyToRect(polys[i])], positiveArea)

\* previewRects (AutoDetectPanel.tsx:56-60)
previewRects ==
  LET infl == [i \in 1..Len(baseRects) |-> inflateRect(baseRects[i], padding)]
  IN  IF mergeEnabled
        THEN nmsMergeRects(infl, [iouThresh |-> 15, distancePx |-> mergeDistance])
        ELSE infl

\* finalRects of apply (AutoDetectPanel.tsx:97-103): the preview rects whose box is
\* selected, in order
RECURSIVE finalRects(_, _, _)
finalRects(rs, sel, k) ==
  IF k > Len(rs) THEN <<>>
  ELSE (IF k \in sel THEN <<rs[k]>> ELSE <<>>) \o finalRects(rs, sel, k + 1)

\* A guard that reads only the rendered state.
returnsEarlyOnStateOnly(w, ref) == w

\* if (working || runningRef.current) return
runDetectReturnsEarly(w, ref) == w \/ ref

\* An applyEffect that does nothing while a detection is running.
applyEffectRunsWhenIdle(rect) == rect.width # 0 /\ rect.height # 0 /\ ~runningRef

\* An applyEffect that returns early on a selection without height only.
applyEffectRunsOnHeight(rect) == rect.height # 0

\* applyEffect goes on past its early returns (part_008:225-228); the canvas and its
\* 2D context exist once the image is loaded.
applyEffectRuns(rect) == rect.width # 0 /\ rect.height # 0

\* The loop of onApply (part_008:596-625) over rs[k..], from the state st
RECURSIVE applyAll(_, _, _, _, _, _)
applyAll(st, rs, k, T, tl, isDev) ==
  IF k > Len(rs) \/ st.thrown THEN st
  ELSE LET r == redactChecked(st.canvas, rs[k], tl, isDev, k \in T)
       IN  applyAll([canvas |-> r.canvas, warned |-> st.warned + r.warned,
                     thrown |-> r.thrown],
                    rs, k + 1, T, tl, isDev)

PaddingChoices == {0, 1}

\* A black canvas and a dark one with one white pixel.
CanvasChoices ==
  { makeImageData(MaxDim, MaxDim, <<0, 0, 0>>, 0),
    makeImageData(MaxDim, MaxDim, <<40, 40, 40>>, 1) }

\* Selections of a drag: one pixel, a column, the whole canvas, an empty one.
SelectionChoices ==
  { MkRect(0, 0, 1, 1), MkRect(1, 0, 1, MaxDim), MkRect(0, 0, MaxDim, MaxDim),
    MkRect(0, 0, 0, MaxDim) }

\* Answers of the detector: none, one box, two boxes, a flat polygon and a box.
DetectResults ==
  { <<>>,
    << <<0, 0, 1, 0, 1, 1, 0, 1>> >>,
    << <<0, 0, 1, 0, 1, 1, 0, 1>>, <<1, 0, 2, 0, 2, 2, 1, 2>> >>,
    << <<0, 1, 2, 1, 2, 1, 0, 1>>, <<1, 0, 2, 0, 2, 2, 1, 2>> >> }

\* The page after the image is loaded (initializeCanvasWithImage pushes the first
\* snapshot), with the padding slider at pad.
UIStart(pad, cv, isDev) ==
  /\ working = FALSE
  /\ workingSeen = FALSE
  /\ runningRef = FALSE
  /\ baseRects = <<>>
  /\ padding = pad
  /\ errorMsg = FALSE
  /\ inflight = 0
  /\ calls = 0
  /\ canvas = cv
  /\ undoStack = <<cv>>
  /\ redoStack = <<>>
  /\ tool = "blackout"
  /\ dev = isDev
  /\ warned = 0
  /\ thrown = FALSE
  /\ exported = makeImageData(0, 0, <<0, 0, 0>>, 0)
  /\ ops = 0
  /\ limit = MaxOps
  /\ handler = [name |-> "initializeCanvasWithImage", empty |-> FALSE]

UIInit == \E pad \in PaddingChoices, cv \in CanvasChoices, isDev \in BOOLEAN : UIStart(pad, cv, isDev)

\* React commits a render: closures and the button see the current `working`.
Render ==
  /\ workingSeen # working
  /\ workingSeen' = working
  /\ UNCHANGED <<working, runningRef, baseRects, padding, errorMsg, inflight, calls>>
  /\ UNCHANGED redactorVars
  /\ UNCHANGED notUI

\* A click on the Auto-detect button (disabled={working}) runs runDetect up to its
\* await (AutoDetectPanel.tsx:75-82).
runDetect ==
  /\ ~workingSeen
  /\ calls < MaxDetect
  /\ IF runDetectReturnsEarly(workingSeen, runningRef)
       THEN UNCHANGED <<working, runningRef, inflight, calls>>
       ELSE /\ working' = TRUE
            /\ runningRef' = TRUE
            /\ inflight' = inflight + 1
            /\ calls' = calls + 1
  /\ UNCHANGED <<workingSeen, baseRects, padding, errorMsg>>
  /\ UNCHANGED redactorVars
  /\ UNCHANGED notUI

\* The request resolves: the try body and the finally (AutoDetectPanel.tsx:83-84, 91-94)
DetectResolves(polys) ==
  /\ inflight > 0
  /\ baseRects' = rectsOfPolys(polys)
  /\ working' = FALSE
  /\ runningRef' = FALSE
  /\ inflight' = inflight - 1
  /\ UNCHANGED <<workingSeen, padding, errorMsg, calls>>
  /\ UNCHANGED redactorVars
  /\ UNCHANGED notUI

\* The request rejects: the catch and the finally (AutoDetectPanel.tsx:85-94)
DetectRejects ==
  /\ inflight > 0
  /\ errorMsg' = TRUE
  /\ baseRects' = <<>>
  /\ working' = FALSE
  /\ runningRef' = FALSE
  /\ inflight' = inflight - 1
  /\ UNCHANGED <<workingSeen, padding, calls>>
  /\ UNCHANGED redactorVars
  /\ UNCHANGED notUI

\* setTimeout(() => setErrorMsg(null), 2500)
ClearError ==
  /\ errorMsg
  /\ errorMsg' = FALSE
  /\ UNCHANGED <<working, workingSeen, runningRef, baseRects, padding, inflight, calls>>
  /\ UNCHANGED redactorVars
  /\ UNCHANGED notUI

\* The Apply button of the panel (disabled while there is no preview rect) with the
\* boxes sel selected: apply, then onApply of ManualRedactor (part_008:589-626).  The
\* checks of the rects in T throw inside their try.
onApply(sel, T) ==
  /\ previewRects # <<>>
  /\ ops < limit
  /\ LET rs == finalRects(previewRects, sel, 1)
         r == applyAll([canvas |-> canvas, warned |-> 0, thrown |-> FALSE],
                       rs, 1, T, tool, dev)
     IN  /\ canvas' = r.canvas
         /\ warned' = r.warned
         /\ thrown' = r.thrown
         /\ handler' = [name |-> "onApply",
                         empty |-> \E k \in 1..Len(rs) : rs[k].width = 0 \/ rs[k].height = 0]
  /\ undoStack' = pushUndoSnapshot(undoStack, canvas)
  /\ ops' = ops + 1
  /\ UNCHANGED <<redoStack, tool, dev, exported, limit>>
  /\ UNCHANGED panelVars
  /\ UNCHANGED notUI

\* A drag ends on the selection rect: onPointerUp calls applyEffect(selection, tool)
\* (part_008:169-179, 224-271).
onPointerUp(rect, throws) ==
  /\ ops < limit
  /\ IF applyEffectRuns(rect)
       THEN LET r == redactChecked(canvas, rect, tool, dev, throws)
            IN  /\ undoStack' = pushUndoSnapshot(undoStack, canvas)
                /\ redoStack' = <<>>
                /\ canvas' = r.canvas
                /\ warned' = r.warned
                /\ thrown' = r.thrown
                /\ ops' = ops + 1
       ELSE /\ warned' = 0
            /\ thrown' = FALSE
            /\ UNCHANGED <<canvas, undoStack, redoStack, ops>>
  /\ handler' = [name |-> "applyEffect", empty |-> rect.width = 0 \/ rect.height = 0]
  /\ UNCHANGED <<tool, dev, exported, limit>>
  /\ UNCHANGED panelVars
  /\ UNCHANGED notUI

\* undo (part_008:128-138)
undo ==
  /\ Len(undoStack) > 1
  /\ redoStack' = Append(redoStack, canvas)
  /\ canvas' = undoStack[Len(undoStack) - 1]
  /\ undoStack' = SubSeq(undoStack, 1, Len(undoStack) - 1)
  /\ warned' = 0
  /\ thrown' = FALSE
  /\ handler' = [name |-> "undo", empty |-> FALSE]
  /\ UNCHANGED <<tool, dev, exported, ops, limit>>
  /\ UNCHANGED panelVars
  /\ UNCHANGED notUI

\* redo (part_008:140-148)
redo ==
  /\ redoStack # <<>>
  /\ redoStack' = SubSeq(redoStack, 1, Len(redoStack) - 1)
  /\ undoStack' = pushUndoSnapshot(undoStack, canvas)
  /\ canvas' = redoStack[Len(redoStack)]
  /\ warned' = 0
  /\ thrown' = FALSE
  /\ handler' = [name |-> "redo", empty |-> FALSE]
  /\ UNCHANGED <<tool, dev, exported, ops, limit>>
  /\ UNCHANGED panelVars
  /\ UNCHANGED notUI

\* A click on a tool button: setTool
setTool(t) ==
  /\ t # tool
  /\ tool' = t
  /\ warned' = 0
  /\ thrown' = FALSE
  /\ UNCHANGED <<canvas, undoStack, redoStack, dev, exported, ops, limit, handler>>
  /\ UNCHANGED panelVars
  /\ UNCHANGED notUI

\* handleExport (part_008:342-396): the canvas is drawn onto a fresh canvas and
\* encoded; nothing of the irreversibility checks is read.
handleExport ==
  /\ exported' = canvas
  /\ warned' = 0
  /\ thrown' = FALSE
  /\ UNCHANGED <<canvas, undoStack, redoStack, tool, dev, ops, limit, handler>>
  /\ UNCHANGED panelVars
  /\ UNCHANGED notUI

\* The panel with the manual redaction next to it.
PanelNext ==
  \/ Render
  \/ runDetect
  \/ \E polys \in DetectResults : DetectResolves(polys)
  \/ DetectRejects
  \/ ClearError
  \/ \E rect \in SelectionChoices, throws \in BOOLEAN : onPointerUp(rect, throws)

\* The page with suggestions on display and no detection running.
RedactorInit ==
  \E pad \in PaddingChoices, cv \in CanvasChoices, isDev \in BOOLEAN, polys \in DetectResults :
    /\ working = FALSE
    /\ workingSeen = FALSE
    /\ runningRef = FALSE
    /\ baseRects = rectsOfPolys(polys)
    /\ padding = pad
    /\ errorMsg = FALSE
    /\ inflight = 0
    /\ calls = 1
    /\ canvas = cv
    /\ undoStack = <<cv>>
    /\ redoStack = <<>>
    /\ tool = "blackout"
    /\ dev = isDev
    /\ warned = 0
    /\ thrown = FALSE
    /\ exported = makeImageData(0, 0, <<0, 0, 0>>, 0)
    /\ ops = 0
    /\ limit = MaxOps
    /\ handler = [name |-> "initializeCanvasWithImage", empty |-> FALSE]

RedactorNext ==
  \/ \E sel \in SUBSET (1..Len(previewRects)), T \in SUBSET (1..Len(previewRects)) : onApply(sel, T)
  \/ \E rect \in SelectionChoices, throws \in BOOLEAN : onPointerUp(rect, throws)
  \/ undo
  \/ redo
  \/ \E t \in Tools : setTool(t)
  \/ handleExport

-----------------------------------------------------------------------------
(* Heuristic detector worker, ocrWorker.ts:182-525.                          *)
(* A plane (gray, magnitude, mask) is a sequence indexed by p + 1 for the    *)
(* source's p = y * w + x.  Numbers are exact: a product that leaves 32 bits *)
(* is carried as little-endian digits in base 10000.                         *)

\* Math.round(num / den) for den > 0 (halves round up).
roundRatio(num, den) == (2 * num + den) \div (2 * den)

RECURSIVE toBig(_)
toBig(n) == IF n = 0 THEN <<>> ELSE <<n % 10000>> \o toBig(n \div 10000)

RECURSIVE carryBig(_, _, _)
carryBig(digits, k, c) ==
  IF k > Len(digits) THEN toBig(c)
  ELSE Const(digits[k] + c, LAMBDA v : <<v % 10000>> \o carryBig(digits, k + 1, v \div 10000))

mulBig(a, b) ==
  IF a = <<>> \/ b = <<>> THEN <<>>
  ELSE Const(Filled([k \in 1..(Len(a) + Len(b) - 1) |->
                      LET I == {i \in 1..Len(a) : k + 1 - i \in 1..Len(b)}
                      IN  SumOver([i \in I |-> a[i] * b[k + 1 - i]], I)]),
             LAMBDA conv : carryBig(conv, 1, 0))

ltBig(a, b) ==
  \/ Len(a) < Len(b)
  \/ /\ Len(a) = Len(b)
     /\ \E k \in 1..Len(a) : a[k] < b[k] /\ \A j \in (k + 1)..Len(a) : a[j] = b[j]

\* toGrayscale: out[j] = (0.2126 r + 0.7152 g + 0.0722 b) & 0xff
toGrayscale(img) ==
  Filled([j \in 1..(img.width * img.height) |-> luma(img.data[j]) % 256])

\* sobelMag, squared: gx * gx + gy * gy inside, 0 on the 1px border it skips.
sobelMagSq(gray, w, h) ==
  Filled([q \in 1..(w * h) |->
     LET x == (q - 1) % w
         y == (q - 1) \div w
     IN  IF x < 1 \/ x >= w - 1 \/ y < 1 \/ y >= h - 1 THEN 0
         ELSE LET tl == gray[q - w - 1]  tc == gray[q - w]  tr == gray[q - w + 1]
                  ml == gray[q - 1]      mr == gray[q + 1]
                  bl == gray[q + w - 1]  bc == gray[q + w]  br == gray[q + w + 1]
                  gx == -tl - 2 * ml - bl + tr + 2 * mr + br
                  gy == -tl - 2 * tc - tr + bl + 2 * bc + br
              IN  gx * gx + gy * gy])

\* normalizeToUint8 of the magnitudes whose squares are fSq.  Pixel 0 is on
\* the border, so min = 0 and nv = 255 * sqrt(v / max), truncated by `| 0`;
\* with max = min every value is 0.
normalizeToUint8(fSq, w, h) ==
  Const(SetMax({fSq[i] : i \in 1..(w * h)}), LAMBDA max :
  Const(Filled([v \in {fSq[i] : i \in 1..(w * h)} |->
                  IF max = 0 THEN 0
                  ELSE CHOOSE k \in 0..255 :
                         /\ k * k * max <= 65025 * v
                         /\ (k + 1) * (k + 1) * max > 65025 * v]),
        LAMBDA level : Filled([i \in 1..(w * h) |-> level[fSq[i]]])))

\* sum += f[e] over the elements e of S
RECURSIVE SumFrom(_, _, _)
SumFrom(f, S, acc) ==
  IF S = {} THEN acc
  ELSE Const(CHOOSE e \in S : TRUE, LAMBDA e :
       Const(<<S \ {e}, acc + f[e]>>, LAMBDA st : SumFrom(f, st[1], st[2])))

\* d * d / a of the first pair exceeds that of the second.
exceeds(between, varMax) ==
  ltBig(mulBig(mulBig(toBig(varMax[1]), toBig(varMax[1])), toBig(between[2])),
        mulBig(mulBig(toBig(between[1]), toBig(between[1])), toBig(varMax[2])))

\* The loop of otsuThreshold over the bins `bins` still to visit, in rising
\* order.  Only the non-empty bins are visited: at an empty bin wB and sumB
\* keep their values, so `between` repeats and cannot exceed varMax.
\* `between` and varMax are carried as <<d, a>> for d * d / a, where
\* d = |sumB * wF - (sum - sumB) * wB| and a = wB * wF.
RECURSIVE otsuLoop(_, _, _, _, _)
otsuLoop(hist, total, sum, bins, st) ==
  IF bins = {} THEN st.threshold
  ELSE Const(SetMin(bins), LAMBDA t :
       Const(bins \ {t}, LAMBDA rest :
       Const(st.wB + hist[t], LAMBDA wB :
         IF wB = 0 THEN otsuLoop(hist, total, sum, rest, st)
         ELSE IF total - wB = 0 THEN st.threshold
         ELSE Const(st.sumB + t * hist[t], LAMBDA sumB :
              Const(<<Abs(sumB * (total - wB) - (sum - sumB) * wB), wB * (total - wB)>>,
                    LAMBDA between :
              Const(IF exceeds(between, st.varMax)
                      THEN [wB |-> wB, sumB |-> sumB, varMax |-> between, threshold |-> t]
                      ELSE [wB |-> wB, sumB |-> sumB, varMax |-> st.varMax,
                            threshold |-> st.threshold],
                    LAMBDA next : otsuLoop(hist, total, sum, rest, next)))))))

otsuThreshold(hist, total) ==
  Const({t \in 0..255 : hist[t] > 0}, LAMBDA used :
  Const(SumFrom([t \in used |-> t * hist[t]], used, 0), LAMBDA sum :
    otsuLoop(hist, total, sum, used,
             [wB |-> 0, sumB |-> 0, varMax |-> <<0, 1>>, threshold |-> 0])))

\* const bias = sens === 'low' ? +12 : sens === 'high' ? -12 : 0
\* the bias with its signs exchanged
sensBiasReversed(sens) == IF sens = "low" THEN -12 ELSE IF sens = "high" THEN 12 ELSE 0

sensBias(sens) == IF sens = "low" THEN 12 ELSE IF sens = "high" THEN -12 ELSE 0

\* Uint32Array(256) with hist[img[i]]++ for every pixel
histogram(img, n) == Filled([t \in 0..255 |-> Cardinality({i \in 1..n : img[i] = t})])

thresholdAtLeast(img, w, h, sens) ==
  Const(histogram(img, w * h), LAMBDA hist :
  Const(Max2(0, Min2(255, otsuThreshold(hist, w * h) + sensBias(sens))), LAMBDA thr :
    Filled([i \in 1..(w * h) |-> IF img[i] >= thr THEN 1 ELSE 0])))

thresholdBinary(img, w, h, sens) ==
  Const(histogram(img, w * h), LAMBDA hist :
  Const(Max2(0, Min2(255, otsuThreshold(hist, w * h) + sensBias(sens))), LAMBDA thr :
    Filled([i \in 1..(w * h) |-> IF img[i] > thr THEN 1 ELSE 0])))

\* The window of dilate / erode around (x, y), clipped to the plane.
window(x, y, w, h, r) ==
  { yy * w + xx + 1 : xx \in Max2(0, x - r)..Min2(w - 1, x + r),
                      yy \in Max2(0, y - r)..Min2(h - 1, y + r) }

dilate(src, w, h, radius) ==
  Filled([q \in 1..(w * h) |->
            IF \E i \in window((q - 1) % w, (q - 1) \div w, w, h, Max2(1, radius)) : src[i] = 1
              THEN 1 ELSE 0])

erode(src, w, h, radius) ==
  Filled([q \in 1..(w * h) |->
            IF \A i \in window((q - 1) % w, (q - 1) \div w, w, h, Max2(1, radius)) : src[i] = 1
              THEN 1 ELSE 0])

\* The flood fill of a connected-components scan: the set pixels reached from
\* `frontier` through the 8 neighbours, given those already reached.  A
\* neighbour is skipped when it lies within `margin` of the plane's edge
\* (margin 0: nx < 0 || nx >= w; margin 1: nx <= 0 || nx >= w - 1).
RECURSIVE floodFill(_, _, _, _, _, _)
floodFill(mask, w, h, margin, reached, frontier) ==
  IF frontier = {} THEN reached
  ELSE Const({ i \in UNION { window((q - 1) % w, (q - 1) \div w, w, h, 1) : q \in frontier } :
                /\ mask[i] = 1
                /\ i \notin reached
                /\ (i - 1) % w \in margin..(w - 1 - margin)
                /\ (i - 1) \div w \in margin..(h - 1 - margin) },
             LAMBDA next :
       Const(reached \cup next, LAMBDA all : floodFill(mask, w, h, margin, all, next)))

\* The bounding rect { x, y, w, h, area, fill } of a blob.
blobRect(blob, w) ==
  LET minx == SetMin({(i - 1) % w : i \in blob})
      maxx == SetMax({(i - 1) % w : i \in blob})
      miny == SetMin({(i - 1) \div w : i \in blob})
      maxy == SetMax({(i - 1) \div w : i \in blob})
  IN  [x |-> minx, y |-> miny, w |-> maxx - minx + 1, h |-> maxy - miny + 1,
       area |-> (maxx - minx + 1) * (maxy - miny + 1), fill |-> Cardinality(blob)]

\* The scan over the pixels in index order: the next seed is the first set
\* pixel not yet visited.
RECURSIVE ccScan(_, _, _, _, _)
ccScan(mask, w, h, margin, visited) ==
  Const({i \in 1..(w * h) : mask[i] = 1 /\ i \notin visited}, LAMBDA seeds :
    IF seeds = {} THEN <<>>
    ELSE Const(SetMin(seeds), LAMBDA q :
         Const(floodFill(mask, w, h, margin, {q}, {q}), LAMBDA blob :
         Const(visited \cup blob, LAMBDA seen :
           <<blobRect(blob, w)>> \o ccScan(mask, w, h, margin, seen)))))

ccBoundingRects(mask, w, h) == ccScan(mask, w, h, 0, {})

\* iou(a, b) of the worker, as the ratio inter / denom.
workerIou(a, b) ==
  LET ix == Max2(0, Min2(a.x + a.w, b.x + b.w) - Max2(a.x, b.x))
      iy == Max2(0, Min2(a.y + a.h, b.y + b.h) - Max2(a.y, b.y))
      inter == ix * iy
      denom == a.area + b.area - inter
  IN  IF denom <= 0 THEN <<0, 1>> ELSE <<inter, denom>>

\* edgeDistance(a, b) of the worker, squared.
workerEdgeDistanceSq(a, b) ==
  LET dx == Max2(0, Max2(b.x - (a.x + a.w), a.x - (b.x + b.w)))
      dy == Max2(0, Max2(b.y - (a.y + a.h), a.y - (b.y + b.h)))
  IN  IF dx = 0 /\ dy = 0 THEN 0 ELSE dx * dx + dy * dy

\* The pair loop of mergeRects from (i, j) on (indices start at 1); iouThresh
\* in hundredths.
RECURSIVE mergeRectsLoop(_, _, _, _, _, _)
mergeRectsLoop(parent, rs, iouThresh, distPx, i, j) ==
  IF i > Len(rs) THEN parent
  ELSE IF j > Len(rs) THEN mergeRectsLoop(parent, rs, iouThresh, distPx, i + 1, i + 2)
  ELSE Const(workerIou(rs[i], rs[j]), LAMBDA q :
       Const(IF \/ q[1] * 100 >= iouThresh * q[2]
                \/ workerEdgeDistanceSq(rs[i], rs[j]) <= distPx * distPx
               THEN unite(parent, i, j) ELSE parent,
             LAMBDA joined : mergeRectsLoop(joined, rs, iouThresh, distPx, i, j + 1)))

\* for (const arr of groups.values()): the bounding box of each group, in the
\* order the groups' roots were first met.
RECURSIVE mergeRectsGroups(_, _, _)
mergeRectsGroups(rs, roots, i) ==
  IF i > Len(rs) THEN <<>>
  ELSE IF \E k \in 1..(i - 1) : roots[k] = roots[i]
       THEN mergeRectsGroups(rs, roots, i + 1)
       ELSE LET idx == {k \in 1..Len(rs) : roots[k] = roots[i]}
                x1 == SetMin({rs[k].x : k \in idx})
                y1 == SetMin({rs[k].y : k \in idx})
                x2 == SetMax({rs[k].x + rs[k].w : k \in idx})
                y2 == SetMax({rs[k].y + rs[k].h : k \in idx})
                w == Max2(1, x2 - x1)
                h == Max2(1, y2 - y1)
            IN  <<[x |-> x1, y |-> y1, w |-> w, h |-> h, area |-> w * h,
                   fill |-> SumFrom([k \in idx |-> rs[k].fill], idx, 0)]>>
                  \o mergeRectsGroups(rs, roots, i + 1)

mergeRects(rs, iouThresh, distPx) ==
  IF Len(rs) <= 1 THEN rs
  ELSE Const(mergeRectsLoop([i \in 1..Len(rs) |-> i], rs, iouThresh, distPx, 1, 2),
             LAMBDA parent :
       Const(rootsFrom(parent, 1, Len(rs)), LAMBDA roots : mergeRectsGroups(rs, roots, 1)))

\* The filter of detectHeuristic (ocrWorker.ts:474-489): minDim 6, minArea,
\* aspect within [0.15, 40] in one orientation, fill fraction (per mille).
keepsRect(r, sens) ==
  LET minArea == IF sens = "low" THEN 80 ELSE IF sens = "high" THEN 24 ELSE 40
      minFill == IF sens = "low" THEN 50 ELSE IF sens = "high" THEN 15 ELSE 30
      hh == IF r.h = 0 THEN 1 ELSE r.h
      arOut == 100 * r.w < 15 * hh \/ r.w > 40 * hh
      invOut == 100 * hh < 15 * r.w \/ hh > 40 * r.w
  IN  /\ ~(r.w < 6 \/ r.h < 6)
      /\ ~(r.area < minArea)
      /\ ~(arOut /\ invOut)
      /\ ~(r.fill * 1000 < minFill * (IF r.area = 0 THEN 1 ELSE r.area))

\* s.filter(...): the elements of s whose index is in `keep`, in order.
RECURSIVE SelectSeqBy(_, _, _)
SelectSeqBy(s, keep, i) ==
  IF i > Len(s) THEN <<>>
  ELSE (IF i \in keep THEN <<s[i]>> ELSE <<>>) \o SelectSeqBy(s, keep, i + 1)

quadSwapped(x1, y1, x2, y2) == <<x2, y1, x1, y1, x1, y2, x2, y2>>

\* [x1, y1, x2, y1, x2, y2, x1, y2]
quad(x1, y1, x2, y2) == <<x1, y1, x2, y1, x2, y2, x1, y2>>

\* const long0 = Math.max(w0, h0) || 1
longEdgeOf(w0, h0) == IF Max2(w0, h0) = 0 THEN 1 ELSE Max2(w0, h0)

\* const scale = long0 > longEdgePx ? longEdgePx / long0 : 1, as a ratio
scaleFor(long0, longEdgePx) == IF long0 > longEdgePx THEN <<longEdgePx, long0>> ELSE <<1, 1>>

\* Math.max(1, Math.round(side * scale))
scaledSide(side, scale) == Max2(1, roundRatio(side * scale[1], scale[2]))

\* ctx.drawImage(src, 0, 0, w, h) followed by getImageData(0, 0, w, h): the
\* resampling is taken as point sampling of the source.
drawImage(src, w, h) ==
  [width |-> w, height |-> h,
   data |-> Filled([q \in 1..(w * h) |->
                      pixelAt(src, src.width, (((q - 1) % w) * src.width) \div w,
                              (((q - 1) \div w) * src.height) \div h)])]

\* The surface detectHeuristic works on: w and h of ocrWorker.ts:443-448.
surfaceOf(imageBitmap, longEdgePx) ==
  LET scale == scaleFor(longEdgeOf(imageBitmap.width, imageBitmap.height), longEdgePx)
  IN  [w |-> scaledSide(imageBitmap.width, scale),
       h |-> scaledSide(imageBitmap.height, scale),
       scale |-> scale]

\* detectHeuristic from the drawn surface to the merged rects on it.
heuristicRects(img, w, h, sensitivity) ==
  Const(toGrayscale(img), LAMBDA gray :
  Const(sobelMagSq(gray, w, h), LAMBDA mag :
  Const(normalizeToUint8(mag, w, h), LAMBDA norm :
  Const(thresholdBinary(norm, w, h, sensitivity), LAMBDA mask0 :
  Const(dilate(mask0, w, h, IF sensitivity = "low" THEN 3 ELSE 2), LAMBDA dil :
  Const(erode(dil, w, h, IF sensitivity = "low" THEN 3 ELSE 2), LAMBDA mask :
  Const(ccBoundingRects(mask, w, h), LAMBDA found :
  Const(SelectSeqBy(found, {i \in 1..Len(found) : keepsRect(found[i], sensitivity)}, 1),
        LAMBDA kept :
    mergeRects(kept, 15,
               IF sensitivity = "low" THEN 2 ELSE IF sensitivity = "high" THEN 5 ELSE 3)))))))))

\* detectHeuristic(imageBitmap, { longEdgePx, sensitivity }); ctx is whether
\* getContext('2d') gave a context.  Returns the surface size, the rects
\* found on it and the polygons.
detectHeuristic(imageBitmap, longEdgePx, sensitivity, ctx) ==
  Const(surfaceOf(imageBitmap, longEdgePx), LAMBDA on :
  Const(IF ctx THEN heuristicRects(drawImage(imageBitmap, on.w, on.h), on.w, on.h, sensitivity)
        ELSE <<>>,
        LAMBDA rs :
    [space |-> <<on.w, on.h>>,
     rects |-> [k \in 1..Len(rs) |->
                  <<rs[k].x, rs[k].y, rs[k].x + rs[k].w, rs[k].y + rs[k].h>>],
     polys |-> [k \in 1..Len(rs) |->
                  quad(roundRatio(rs[k].x * imageBitmap.width, on.w),
                       roundRatio(rs[k].y * imageBitmap.height, on.h),
                       roundRatio((rs[k].x + rs[k].w) * imageBitmap.width, on.w),
                       roundRatio((rs[k].y + rs[k].h) * imageBitmap.height, on.h))]]))

-----------------------------------------------------------------------------
(* HeuristicTextDetector, detectorClient.ts:277-389.                         *)

\* 0.2126 r + 0.7152 g + 0.0722 b, times 10000 (this luma is not truncated).
luma10k(px) == 2126 * px[1] + 7152 * px[2] + 722 * px[3]

\* map[y * w + x] = g > thr ? 1 : 0 inside the 1px border, 0 on it.
gradientMap(img, w, h, sensitivity) ==
  Filled([q \in 1..(w * h) |->
    LET x == (q - 1) % w
        y == (q - 1) \div w
        thr == IF sensitivity = "low" THEN 28 ELSE IF sensitivity = "high" THEN 12 ELSE 20
    IN  IF x < 1 \/ x >= w - 1 \/ y < 1 \/ y >= h - 1 THEN 0
        ELSE LET gx == luma10k(img.data[q + 1]) - luma10k(img.data[q - 1])
                 gy == luma10k(img.data[q + w]) - luma10k(img.data[q - w])
             IN  IF Abs(gx) + Abs(gy) > thr * 10000 THEN 1 ELSE 0])

\* tmp: a copy of map whose inner pixels take the maximum of their 3x3 block.
dilateLike(map, w, h) ==
  Filled([q \in 1..(w * h) |->
    LET x == (q - 1) % w
        y == (q - 1) \div w
    IN  IF x < 1 \/ x >= w - 1 \/ y < 1 \/ y >= h - 1 THEN map[q]
        ELSE IF \E i \in window(x, y, w, h, 1) : map[i] = 1 THEN 1 ELSE 0])

\* detect from the drawn surface to its rects: the blobs at least 8 wide and
\* 8 high, as { x1, y1, x2, y2 } with x2, y2 inclusive.
detectRects(img, w, h, sensitivity) ==
  Const(gradientMap(img, w, h, sensitivity), LAMBDA map :
  Const(dilateLike(map, w, h), LAMBDA tmp :
  Const(ccScan(tmp, w, h, 1, {}), LAMBDA found :
  Const(SelectSeqBy(found, {i \in 1..Len(found) : found[i].w >= 8 /\ found[i].h >= 8}, 1),
        LAMBDA kept :
    [k \in 1..Len(kept) |->
       [x1 |-> kept[k].x, y1 |-> kept[k].y,
        x2 |-> kept[k].x + kept[k].w - 1, y2 |-> kept[k].y + kept[k].h - 1]]))))

\* const inv = 1 / (scale || 1), as a ratio
invOf(scale) == IF scale[1] = 0 THEN <<1, 1>> ELSE <<scale[2], scale[1]>>

\* HeuristicTextDetector.detect(imageBitmap, { longEdgePx, sensitivity }); ctx
\* is whether getContext('2d') gave a context.  Returns the surface size, the
\* rects found on it (corners x1, y1, x2 + 1, y2 + 1) and the polygons.
detect(imageBitmap, longEdgePx, sensitivity, ctx) ==
  Const(surfaceOf(imageBitmap, longEdgePx), LAMBDA on :
  Const(IF ctx THEN detectRects(drawImage(imageBitmap, on.w, on.h), on.w, on.h, sensitivity)
        ELSE <<>>,
        LAMBDA rs :
    [space |-> <<on.w, on.h>>,
     rects |-> [k \in 1..Len(rs) |->
                  <<rs[k].x1, rs[k].y1, rs[k].x2 + 1, rs[k].y2 + 1>>],
     polys |-> [k \in 1..Len(rs) |->
                  quad(roundRatio(rs[k].x1 * invOf(on.scale)[1], invOf(on.scale)[2]),
                       roundRatio(rs[k].y1 * invOf(on.scale)[1], invOf(on.scale)[2]),
                       roundRatio((rs[k].x2 + 1) * invOf(on.scale)[1], invOf(on.scale)[2]),
                       roundRatio((rs[k].y2 + 1) * invOf(on.scale)[1], invOf(on.scale)[2]))]]))

-----------------------------------------------------------------------------
(* Inputs of a detection.                                                    *)

\* A canvas of gray `bg` with a block of gray `fg` over its middle half
\* (uniform when fg = bg).
paintCanvas(w, h, bg, fg) ==
  [width |-> w, height |-> h,
   data |-> Filled([q \in 1..(w * h) |->
                      LET x == (q - 1) % w
                          y == (q - 1) \div w
                      IN  IF 4 * x >= w /\ 4 * x < 3 * w /\ 4 * y >= h /\ 4 * y < 3 * h
                            THEN <<fg, fg, fg>> ELSE <<bg, bg, bg>>])]

\* Canvas sizes: at, between and above the target long edges, one that is not
\* square, and a strip.
SizeChoices == { <<12, 12>>, <<18, 18>>, <<24, 24>>, <<24, 18>>, <<40, 6>> }

\* <<bg, fg>>: two uniform canvases and one with a block on it.
PaintChoices == { <<0, 0>>, <<128, 128>>, <<100, 130>> }

LongEdgeChoices == {12, 16}

Sensitivities == {"low", "med", "high"}

\* The callers of a detector: detectBoxesFromCanvas of the provider client
\* (which passes sensitivity 'med', detectorClient.ts:240), the same function of
\* the heuristic worker client (geom.ts:178-263), and a direct call of
\* HeuristicTextDetector.detect.
DetectClients == {"provider", "worker", "detector"}

DetectionStart(c, cv, o) ==
  /\ dclient = c
  /\ dcanvas = cv
  /\ dopts = o
  /\ dstage = "call"
  /\ dscale = <<1, 1>>
  /\ dbitmap = makeImageData(0, 0, <<0, 0, 0>>, 0)
  /\ dspace = <<0, 0>>
  /\ drects = <<>>
  /\ dpolys = <<>>
  /\ dboxes = <<>>

DetectInit ==
  \E c \in DetectClients, size \in SizeChoices, paint \in PaintChoices,
     edge \in LongEdgeChoices, sens \in Sensitivities :
    /\ c = "provider" => sens = "med"
    /\ DetectionStart(c, paintCanvas(size[1], size[2], paint[1], paint[2]),
                   [longEdgePx |-> edge, sensitivity |-> sens])

\* detectBoxesFromCanvas up to the ImageBitmap.  The provider client draws
\* the canvas onto a temporary surface of dsW x dsH when its long edge exceeds
\* longEdgePx (detectorClient.ts:136-171); the others take the canvas as it is.
PrepareBitmap ==
  /\ dstage = "call"
  /\ LET scale == scaleFor(longEdgeOf(dcanvas.width, dcanvas.height), dopts.longEdgePx)
         needsDownscale == longEdgeOf(dcanvas.width, dcanvas.height) > dopts.longEdgePx
         dsW == scaledSide(dcanvas.width, scale)
         dsH == scaledSide(dcanvas.height, scale)
     IN  IF dclient = "provider"
           THEN /\ dscale' = scale
                /\ dbitmap' = IF needsDownscale THEN drawImage(dcanvas, dsW, dsH) ELSE dcanvas
           ELSE /\ dscale' = <<1, 1>>
                /\ dbitmap' = dcanvas
  /\ dstage' = "bitmap"
  /\ UNCHANGED <<dclient, dcanvas, dopts, dspace, drects, dpolys, dboxes>>
  /\ UNCHANGED notDetect

\* The detector's pass over the bitmap: detectHeuristic in the worker
\* (ocrWorker.ts:511-523), HeuristicTextDetector.detect otherwise.
RunDetector(ctx) ==
  /\ dstage = "bitmap"
  /\ \E out \in { IF dclient = "worker"
                     THEN detectHeuristic(dbitmap, dopts.longEdgePx, dopts.sensitivity, ctx)
                     ELSE detect(dbitmap, dopts.longEdgePx, dopts.sensitivity, ctx) } :
       /\ dspace' = out.space
       /\ drects' = out.rects
       /\ dpolys' = out.polys
  /\ dstage' = "detected"
  /\ UNCHANGED <<dclient, dcanvas, dopts, dscale, dbitmap, dboxes>>
  /\ UNCHANGED notDetect

\* poly[i] * inv for inv = 1 / (scale || 1), as a ratio
timesInvTwice(c, scale) ==
  LET inv == invOf(scale) IN <<c * inv[1] * inv[1], inv[2] * inv[2]>>

timesInv(c, scale) == LET inv == invOf(scale) IN <<c * inv[1], inv[2]>>

\* const scaled = (!needsDownscale || scale === 1) ? polys : polys.map(...)
scaleBack(polys, scale) ==
  IF scale[1] = scale[2]
    THEN [k \in 1..Len(polys) |-> [i \in 1..Len(polys[k]) |-> <<polys[k][i], 1>>]]
    ELSE [k \in 1..Len(polys) |-> [i \in 1..Len(polys[k]) |-> timesInv(polys[k][i], scale)]]

\* detectBoxesFromCanvas returns: the provider client scales the polygons
\* back (detectorClient.ts:246-258), the worker client returns the worker's
\* boxes (geom.ts:251-262), a direct call has its polygons already.
ReturnBoxes ==
  /\ dstage = "detected"
  /\ dboxes' = scaleBack(dpolys, dscale)
  /\ dstage' = "returned"
  /\ UNCHANGED <<dclient, dcanvas, dopts, dscale, dbitmap, dspace, drects, dpolys>>
  /\ UNCHANGED notDetect

DetectNext ==
  \/ PrepareBitmap
  \/ \E ctx \in BOOLEAN : RunDetector(ctx)
  \/ ReturnBoxes

-----------------------------------------------------------------------------
(* The OCR worker, ocrWorker.ts:1-180.  A message is handled by             *)
(* self.onmessage (138-178), which awaits ensureReady (41-136); the         *)
(* initialization is the async block of lines 44-125 with its catch         *)
(* (126-130).  Nothing in the module assigns `ocr` (line 25).               *)

MaxMsg == 3

Msgs == 1..MaxMsg
PayloadKinds == {"valid", "noid", "nobitmap"}

WorkerStart ==
  /\ ocr = FALSE
  /\ detector = FALSE
  /\ initPromise = 0
  /\ isReady = FALSE
  /\ inits = <<>>
  /\ wkind = [m \in Msgs |-> "valid"]
  /\ wpc = [m \in Msgs |-> "unsent"]
  /\ wawait = [m \in Msgs |-> 0]
  /\ wanswer = [m \in Msgs |-> "none"]
  /\ wclosed = [m \in Msgs |-> FALSE]

\* The try block of onmessage after ensureReady has returned (145-166):
\* the answer posted, by whether detector.run succeeds.
runDetector(det, runOk) == IF det /\ runOk THEN "ok" ELSE "detect"

\* ensureReady after `await initPromise` (131-135), then the detector run
afterInit(outcome, ready, o, det, runOk) ==
  IF outcome = "rejected" THEN "init"
  ELSE IF ~ready \/ ~o THEN "notready"
  ELSE runDetector(det, runOk)

\* postMessage of the answer; both paths call imageBitmap.close() first
\* (162-164, 169-171), which closes the bitmap when the message has one.
answer(m, kind, what) ==
  /\ wanswer' = [wanswer EXCEPT ![m] = what]
  /\ wclosed' = [wclosed EXCEPT ![m] = kind # "nobitmap"]
  /\ wpc' = [wpc EXCEPT ![m] = "answered"]

\* self.onmessage up to its first await: the payload test (141), then
\* ensureReady up to `await initPromise` (42-131).
Receive(m, kind, runOk) ==
  /\ wpc[m] = "unsent"
  /\ \A q \in Msgs : q < m => wpc[q] # "unsent"
  /\ wkind' = [wkind EXCEPT ![m] = kind]
  /\ IF kind # "valid"
       THEN /\ answer(m, kind, "payload")
            /\ UNCHANGED <<initPromise, inits, wawait>>
       ELSE IF isReady /\ ocr
         THEN /\ answer(m, kind, runDetector(detector, runOk))
              /\ UNCHANGED <<initPromise, inits, wawait>>
         ELSE /\ IF initPromise = 0
                   THEN /\ inits' = Append(inits, "pending")
                        /\ initPromise' = Len(inits) + 1
                   ELSE UNCHANGED <<initPromise, inits>>
              /\ wawait' = [wawait EXCEPT ![m] = initPromise']
              /\ wpc' = [wpc EXCEPT ![m] = "awaiting"]
              /\ UNCHANGED <<wanswer, wclosed>>
  /\ UNCHANGED <<ocr, detector, isReady>>
  /\ UNCHANGED notWorker

\* The initialization completes: detector = await DetectionCtor.create(..);
\* isReady = true (120-121).
InitSucceeds ==
  /\ initPromise # 0
  /\ inits[initPromise] = "pending"
  /\ detector' = TRUE
  /\ isReady' = TRUE
  /\ inits' = [inits EXCEPT ![initPromise] = "fulfilled"]
  /\ UNCHANGED <<ocr, initPromise, wkind, wpc, wawait, wanswer, wclosed>>
  /\ UNCHANGED notWorker

\* The initialization throws (preflight, import or create): isReady = false and
\* initPromise = null, so that the next call retries (123-130).
InitFails ==
  /\ initPromise # 0
  /\ inits[initPromise] = "pending"
  /\ isReady' = FALSE
  /\ initPromise' = 0
  /\ inits' = [inits EXCEPT ![initPromise] = "rejected"]
  /\ UNCHANGED <<ocr, detector, wkind, wpc, wawait, wanswer, wclosed>>
  /\ UNCHANGED notWorker

\* The handler of message m continues after `await initPromise` (131-177).
Resume(m, runOk) ==
  /\ wpc[m] = "awaiting"
  /\ inits[wawait[m]] # "pending"
  /\ answer(m, wkind[m], afterInit(inits[wawait[m]], isReady, ocr, detector, runOk))
  /\ UNCHANGED <<ocr, detector, initPromise, isReady, inits, wkind, wawait>>
  /\ UNCHANGED notWorker

WorkerNext ==
  \/ \E m \in Msgs, kind \in PayloadKinds, runOk \in BOOLEAN : Receive(m, kind, runOk)
  \/ InitSucceeds
  \/ InitFails
  \/ \E m \in Msgs, runOk \in BOOLEAN : Resume(m, runOk)

-----------------------------------------------------------------------------
(* Calls of the two pure functions of the geometry kernel, geom.ts:4-38.    *)

MaxPolyLen == 5

\* The numbers of an argument: not finite, at the ends of the range, where a
\* difference is rounded, and small.
NumberChoices == {NaN, PosInfinity, -MaxFinite, -1, 0, Pow2(SignificantBits), MaxFinite}

\* The polygons of geom.test.ts:5-16
TestPolys ==
  { <<10, 20, 110, 20, 110, 70, 10, 70>>, <<50, 10, 90, 50, 50, 90, 10, 50>> }

PolyChoices ==
  { [isArray |-> TRUE, values |-> s] : s \in SeqsUpTo(NumberChoices, MaxPolyLen) \cup TestPolys }
    \cup { [isArray |-> FALSE, values |-> <<>>] }

\* Rects of finite fields, among them those of geom.test.ts:20-30
InflateChoices ==
  { MkRect(x, y, w, h) :
      x \in {-MaxFinite, 0, 20, MaxFinite}, y \in {0, 30},
      w \in {-4, 0, 40, MaxFinite}, h \in {0, 10} }

PadChoices == {NaN, PosInfinity, NegInfinity, -5, -1, 0, 1, 5, 10, MaxFinite}

\* Rects of finite fields for iou: the pairs of geom.test.ts:36-37 and 51-52,
\* a rect inside another, zero-area and negative-width rects, a rect whose
\* right edge is rounded and one whose area overflows.
IouRectChoices ==
  { MkRect(10, 10, 40, 20), MkRect(30, 15, 40, 20),
    MkRect(0, 0, 20, 20), MkRect(25, 0, 20, 20), MkRect(5, 5, 10, 10),
    MkRect(60, 60, 0, 0), MkRect(0, 0, 0, 5), MkRect(12, 12, -4, 4),
    MkRect(1, 0, Pow2(SignificantBits) + 2, 1),
    MkRect(0, 0, MaxFinite, MaxFinite), MkRect(-MaxFinite, 0, MaxFinite, 1) }

KernelStart(stage, poly, r, pad, r2) ==
  /\ kstage = stage
  /\ kpoly = poly
  /\ krect = r
  /\ kpad = pad
  /\ kbox = MkRect(0, 0, 0, 0)
  /\ krect2 = r2
  /\ kratio = <<0, 1>>

KernelInit ==
  \/ \E poly \in PolyChoices :
       KernelStart("polyToRect", poly, MkRect(0, 0, 0, 0), 0, MkRect(0, 0, 0, 0))
  \/ \E r \in InflateChoices, pad \in PadChoices :
       KernelStart("inflateRect", [isArray |-> TRUE, values |-> <<>>], r, pad,
                   MkRect(0, 0, 0, 0))
  \/ \E r \in IouRectChoices, r2 \in IouRectChoices :
       KernelStart("iou", [isArray |-> TRUE, values |-> <<>>], r, 0, r2)

\* const r = polyToRect(poly)
PolyToRect ==
  /\ kstage = "polyToRect"
  /\ kbox' = polyToRectOf(kpoly)
  /\ kstage' = "rect"
  /\ UNCHANGED <<kpoly, krect, kpad, krect2, kratio>>
  /\ UNCHANGED notKernel

\* const out = inflateRect(r, pad)
InflateRect ==
  /\ kstage = "inflateRect"
  /\ kbox' = inflateRect(krect, kpad)
  /\ kstage' = "inflated"
  /\ UNCHANGED <<kpoly, krect, kpad, krect2, kratio>>
  /\ UNCHANGED notKernel

\* const v = iou(a, b)
Iou ==
  /\ kstage = "iou"
  /\ kratio' = iou(krect, krect2)
  /\ kstage' = "ratio"
  /\ UNCHANGED <<kpoly, krect, kpad, kbox, krect2>>
  /\ UNCHANGED notKernel

KernelNext == PolyToRect \/ InflateRect \/ Iou

-----------------------------------------------------------------------------
(* The detectors' stages on their own: the threshold of the worker's        *)
(* detector (ocrWorker.ts:287-299), the gradient threshold of               *)
(* HeuristicTextDetector (detectorClient.ts:321-335) and the component      *)
(* filter of detectHeuristic (ocrWorker.ts:477-493).                        *)

StageStart(stage, norm, img, comp, sens) ==
  /\ sstage = stage
  /\ snorm = norm
  /\ smask = [s \in Sensitivities |-> <<>>]
  /\ simg = img
  /\ sgrad = [s \in Sensitivities |-> <<>>]
  /\ scomp = comp
  /\ ssens = sens
  /\ skept = FALSE

\* the pixels of the maps thresholdBinary is given
MaxMapLen == 4

\* Squared Sobel magnitudes: none, three close ones, a strong edge.
MagSqChoices == {0, 2304, 2500, 2704, 10000}

\* The maps normalizeToUint8 produces from them.
NormChoices ==
  { [w |-> MaxMapLen, h |-> 1, data |-> normalizeToUint8(m, MaxMapLen, 1)] :
      m \in [1..MaxMapLen -> MagSqChoices] }

\* A 3x3 image whose centre pixel has the given gray neighbours.
crossImage(l, r, u, d) ==
  [width |-> 3, height |-> 3,
   data |-> Filled([q \in 1..9 |->
              IF q = 4 THEN <<l, l, l>> ELSE IF q = 6 THEN <<r, r, r>>
              ELSE IF q = 2 THEN <<u, u, u>> ELSE IF q = 8 THEN <<d, d, d>>
              ELSE <<0, 0, 0>>])]

GrayChoices == {0, 10, 15, 25, 40}

CrossChoices ==
  { crossImage(l, r, u, d) : l \in GrayChoices, r \in GrayChoices,
                             u \in GrayChoices, d \in GrayChoices }

\* Components as ccBoundingRects reports them: area is w * h, and an 8-connected blob
\* that spans its bounding rect has between max(w, h) and w * h pixels.
ComponentDims == {1, 5, 6, 7, 40, 41, 60, 240, 241, 250}

ComponentChoices ==
  { [x |-> 0, y |-> 0, w |-> w, h |-> h, area |-> w * h,
     fill |-> IF solid THEN w * h ELSE Max2(w, h)] :
      w \in ComponentDims, h \in ComponentDims, solid \in BOOLEAN }

NoComponent == [x |-> 0, y |-> 0, w |-> 0, h |-> 0, area |-> 0, fill |-> 0]

StageInit ==
  \/ \E norm \in NormChoices :
       StageStart("thresholdBinary", norm, makeImageData(0, 0, <<0, 0, 0>>, 0),
                  NoComponent, "med")
  \/ \E img \in CrossChoices :
       StageStart("gradient", [w |-> 0, h |-> 0, data |-> <<>>], img, NoComponent, "med")
  \/ \E comp \in ComponentChoices, sens \in Sensitivities :
       StageStart("filter", [w |-> 0, h |-> 0, data |-> <<>>],
                  makeImageData(0, 0, <<0, 0, 0>>, 0), comp, sens)

\* thresholdBinary(norm, w, h, sens) (ocrWorker.ts:467), once per sensitivity
ThresholdBinary(sens) ==
  /\ sstage = "thresholdBinary"
  /\ smask[sens] = <<>>
  /\ \E out \in {thresholdBinary(snorm.data, snorm.w, snorm.h, sens)} :
       smask' = [smask EXCEPT ![sens] = out]
  /\ UNCHANGED <<sstage, snorm, simg, sgrad, scomp, ssens, skept>>
  /\ UNCHANGED notStage

\* the gradient pass of HeuristicTextDetector.detect (detectorClient.ts:321-335), once
\* per sensitivity
GradientMap(sens) ==
  /\ sstage = "gradient"
  /\ sgrad[sens] = <<>>
  /\ \E out \in {gradientMap(simg, simg.width, simg.height, sens)} :
       sgrad' = [sgrad EXCEPT ![sens] = out]
  /\ UNCHANGED <<sstage, snorm, smask, simg, scomp, ssens, skept>>
  /\ UNCHANGED notStage

\* the callback of rects.filter on one component (ocrWorker.ts:482-493)
Filter ==
  /\ sstage = "filter"
  /\ sstage' = "filtered"
  /\ skept' = keepsRect(scomp, ssens)
  /\ UNCHANGED <<snorm, smask, simg, sgrad, scomp, ssens>>
  /\ UNCHANGED notStage

StageNext ==
  \/ \E sens \in Sensitivities : ThresholdBinary(sens)
  \/ \E sens \in Sensitivities : GradientMap(sens)
  \/ Filter

-----------------------------------------------------------------------------
(* The detections store and the handlers of ManualRedactor around it.       *)

MaxBoxes == 2
MaxRuns == 3

\* the index idx stands for the id `box-${idx}`
BoxIds == 0..(MaxBoxes - 1)
Types == {"auto"}

\* the detections runOcrAsync makes of the n boxes of a detector run
boxDetections(n) == [k \in 1..n |-> [id |-> k - 1, type |-> "auto"]]

idsOf(items) == {items[k].id : k \in DOMAIN items}
ofType(items, type) == SelectSeq(items, LAMBDA d : d.type = type)

\* items.reduce(...) of setDetections
groupByType(items) ==
  [t \in {items[k].type : k \in DOMAIN items} |-> ofType(items, t)]

setDetections(items) ==
  /\ detections' = items
  /\ grouped' = groupByType(items)
  /\ UNCHANGED acceptedById

setAccepted(id, accepted) ==
  /\ acceptedById' = [acceptedById EXCEPT ![id] = IF accepted THEN "true" ELSE "false"]
  /\ UNCHANGED <<detections, grouped>>

acceptAllOfType(type) ==
  /\ acceptedById' =
       [id \in BoxIds |-> IF id \in idsOf(ofType(detections, type)) THEN "true"
                          ELSE acceptedById[id]]
  /\ UNCHANGED <<detections, grouped>>

rejectAllOfType(type) ==
  /\ acceptedById' =
       [id \in BoxIds |-> IF id \in idsOf(ofType(detections, type)) THEN "false"
                          ELSE acceptedById[id]]
  /\ UNCHANGED <<detections, grouped>>

\* !!acceptedById[id]
isAccepted(id) == acceptedById[id] = "true"

StoreStart(items, accepted) ==
  /\ detections = items
  /\ grouped = groupByType(items)
  /\ acceptedById = accepted
  /\ lastCandidates = items
  /\ userAccepted = {}
  /\ appliedIds = [run |-> 0, ids |-> {}]
  /\ runs = 0

\* create(...): the store of a page that has just been loaded
StoreInit == StoreStart(<<>>, [id \in BoxIds |-> "absent"])

\* runOcrAsync, from the await of detectBoxesFromCanvas on: the detector has found n boxes
runOcrAsync(n) ==
  /\ runs < MaxRuns
  /\ runs' = runs + 1
  /\ lastCandidates' = boxDetections(n)
  /\ setDetections(boxDetections(n))
  /\ userAccepted' = {}
  /\ UNCHANGED appliedIds
  /\ UNCHANGED notStore

\* the effect of the confidence slider and of the zoom: filterDetections keeps the
\* candidates whose id is in keep
Refilter(keep) ==
  /\ setDetections(SelectSeq(lastCandidates, LAMBDA d : d.id \in keep))
  /\ UNCHANGED <<lastCandidates, userAccepted, appliedIds, runs>>
  /\ UNCHANGED notStore

\* the check box of one detection of the panel
onChangeAccepted(id, checked) ==
  /\ id \in idsOf(detections)
  /\ setAccepted(id, checked)
  /\ userAccepted' = IF checked THEN userAccepted \cup {id} ELSE userAccepted
  /\ UNCHANGED <<lastCandidates, appliedIds, runs>>
  /\ UNCHANGED notStore

\* "Accept All" of one group: acceptAllOfType(t); onApplyType(t)
AcceptAll(type) ==
  /\ type \in DOMAIN grouped
  /\ acceptAllOfType(type)
  /\ userAccepted' = userAccepted \cup idsOf(ofType(detections, type))
  /\ appliedIds' = [run |-> runs, ids |-> idsOf(ofType(lastCandidates, type))]
  /\ UNCHANGED <<lastCandidates, runs>>
  /\ UNCHANGED notStore

\* "Reject All" of one group
RejectAll(type) ==
  /\ type \in DOMAIN grouped
  /\ rejectAllOfType(type)
  /\ UNCHANGED <<lastCandidates, userAccepted, appliedIds, runs>>
  /\ UNCHANGED notStore

\* onApplyAccepted: every candidate whose id is accepted in the store is redacted
onApplyAccepted ==
  /\ appliedIds' =
       [run |-> runs, ids |-> {id \in idsOf(lastCandidates) : isAccepted(id)}]
  /\ UNCHANGED <<detections, grouped, acceptedById, lastCandidates, userAccepted, runs>>
  /\ UNCHANGED notStore

StoreNext ==
  \/ \E n \in 0..MaxBoxes : runOcrAsync(n)
  \/ \E keep \in SUBSET BoxIds : Refilter(keep)
  \/ \E id \in BoxIds, checked \in BOOLEAN : onChangeAccepted(id, checked)
  \/ \E type \in Types : AcceptAll(type)
  \/ \E type \in Types : RejectAll(type)
  \/ onApplyAccepted

StoreIdle == StoreInit

-----------------------------------------------------------------------------
(* The parts at rest.                                                       *)

StageIdle ==
  StageStart("filter", [w |-> 0, h |-> 0, data |-> <<>>],
             makeImageData(0, 0, <<0, 0, 0>>, 0), NoComponent, "med")


\* The parts of the state a specification leaves alone.
KernelIdle ==
  KernelStart("polyToRect", [isArray |-> TRUE, values |-> <<>>], MkRect(0, 0, 0, 0), 0,
              MkRect(0, 0, 0, 0))

WorkerIdle == WorkerStart

GeomIdle ==
  /\ rects = <<>>
  /\ options = [iouThresh |-> 15, distancePx |-> 6]
  /\ merged = <<>>
  /\ merged2 = <<>>
  /\ gstage = "input"

VerifyIdle ==
  /\ before = makeImageData(0, 0, <<0, 0, 0>>, 0)
  /\ after = makeImageData(0, 0, <<0, 0, 0>>, 0)
  /\ vtool = "blackout"
  /\ vdone = FALSE
  /\ verdict = FALSE

ClientIdle == ClientStart("provider")

DetectIdle ==
  DetectionStart("provider", makeImageData(0, 0, <<0, 0, 0>>, 0),
              [longEdgePx |-> 1280, sensitivity |-> "med"])

UIIdle == UIStart(4, makeImageData(0, 0, <<0, 0, 0>>, 0), FALSE)

InitGeom == GeomInit /\ VerifyIdle /\ ClientIdle /\ UIIdle /\ DetectIdle /\ WorkerIdle /\ KernelIdle
  /\ StageIdle /\ StoreIdle
SpecGeom == InitGeom /\ [][GeomNext]_vars

InitVerify == VerifyInit /\ GeomIdle /\ ClientIdle /\ UIIdle /\ DetectIdle /\ WorkerIdle /\ KernelIdle
  /\ StageIdle /\ StoreIdle
SpecVerify == InitVerify /\ [][VerifyNext]_vars

InitClient == ClientInit /\ GeomIdle /\ VerifyIdle /\ UIIdle /\ DetectIdle /\ WorkerIdle /\ KernelIdle
  /\ StageIdle /\ StoreIdle
SpecClient == InitClient /\ [][ClientNext]_vars

\* The clients with their scheduling: a bitmap is made or fails to be made, a live
\* worker answers every message it has received, a provider's detect returns or
\* throws, and a posted answer is delivered.  Calls of detectBoxesFromCanvas and of
\* disposeDetectorWorker and worker error events happen or not.
ClientFairness ==
  \A r \in Reqs :
    /\ WF_vars(BitmapReady(r) \/ BitmapFails(r))
    /\ WF_vars(\E ok \in BOOLEAN : WorkerHandle(r, ok))
    /\ WF_vars(\E ok \in BOOLEAN : ProviderDetect(r, ok))
    /\ WF_vars(\E ok \in BOOLEAN : OnMessage([id |-> r, ok |-> ok]))

SpecClientFair == InitClient /\ [][ClientNext]_vars /\ ClientFairness

InitPanel == UIInit /\ GeomIdle /\ VerifyIdle /\ ClientIdle /\ DetectIdle /\ WorkerIdle /\ KernelIdle
  /\ StageIdle /\ StoreIdle
SpecPanel == InitPanel /\ [][PanelNext]_vars

InitRedactor == RedactorInit /\ GeomIdle /\ VerifyIdle /\ ClientIdle /\ DetectIdle /\ WorkerIdle /\ KernelIdle
  /\ StageIdle /\ StoreIdle
SpecRedactor == InitRedactor /\ [][RedactorNext]_vars

InitDetect == DetectInit /\ GeomIdle /\ VerifyIdle /\ ClientIdle /\ UIIdle /\ WorkerIdle /\ KernelIdle
  /\ StageIdle /\ StoreIdle
SpecDetect == InitDetect /\ [][DetectNext]_vars

InitWorker == WorkerStart /\ GeomIdle /\ VerifyIdle /\ ClientIdle /\ UIIdle /\ DetectIdle /\ KernelIdle
  /\ StageIdle /\ StoreIdle
SpecWorker == InitWorker /\ [][WorkerNext]_vars

InitKernel ==
  KernelInit /\ GeomIdle /\ VerifyIdle /\ ClientIdle /\ UIIdle /\ DetectIdle /\ WorkerIdle
  /\ StageIdle /\ StoreIdle
SpecKernel == InitKernel /\ [][KernelNext]_vars

\* The history of ManualRedactor on its own: redactions, undo and redo in a production
\* build, from a freshly loaded image or from a black image that has been blacked out
\* again and again until the undo stack is two short of its limit.
MaxEdits == 2

HistoryStart(cv, depth, polys) ==
  /\ working = FALSE
  /\ workingSeen = FALSE
  /\ runningRef = FALSE
  /\ baseRects = rectsOfPolys(polys)
  /\ padding = 4
  /\ errorMsg = FALSE
  /\ inflight = 0
  /\ calls = 1
  /\ canvas = cv
  /\ undoStack = [k \in 1..(depth + 1) |-> cv]
  /\ redoStack = <<>>
  /\ tool = "blackout"
  /\ dev = FALSE
  /\ warned = 0
  /\ thrown = FALSE
  /\ exported = makeImageData(0, 0, <<0, 0, 0>>, 0)
  /\ ops = depth
  /\ limit = depth + MaxEdits
  /\ handler = [name |-> IF depth = 0 THEN "initializeCanvasWithImage" ELSE "applyEffect",
                empty |-> FALSE]

HistoryInit ==
  \E polys \in DetectResults :
    \/ \E cv \in CanvasChoices : HistoryStart(cv, 0, polys)
    \/ HistoryStart(makeImageData(MaxDim, MaxDim, <<0, 0, 0>>, 0), UndoLimit - 2, polys)

HistoryNext ==
  \/ \E sel \in SUBSET (1..Len(previewRects)) : onApply(sel, {})
  \/ \E rect \in SelectionChoices : onPointerUp(rect, FALSE)
  \/ undo
  \/ redo

InitHistory ==
  HistoryInit /\ GeomIdle /\ VerifyIdle /\ ClientIdle /\ DetectIdle /\ WorkerIdle
  /\ KernelIdle /\ StageIdle /\ StoreIdle
SpecHistory == InitHistory /\ [][HistoryNext]_vars

InitStage ==
  StageInit /\ GeomIdle /\ VerifyIdle /\ ClientIdle /\ UIIdle /\ DetectIdle /\ WorkerIdle
  /\ KernelIdle /\ StoreIdle
SpecStage == InitStage /\ [][StageNext]_vars

-----------------------------------------------------------------------------
(* Properties of nmsMergeRects.                                             *)

\* outer covers inner
Contains(outer, inner) ==
  /\ outer.x <= inner.x
  /\ outer.y <= inner.y
  /\ outer.x + outer.width >= inner.x + inner.width
  /\ outer.y + outer.height >= inner.y + inner.height

\* No two rects of the list satisfy the merge predicate.
Stable(rs, o) ==
  \A i \in 1..Len(rs) : \A j \in 1..Len(rs) : i < j => ~mergeable(rs[i], rs[j], o)

\* The indices of `input` linked to a member of S by edges of the merge graph.
RECURSIVE Linked(_, _, _)
Linked(S, input, o) ==
  LET T == S \cup {j \in 1..Len(input) : \E i \in S : mergeable(input[i], input[j], o)}
  IN  IF T = S THEN S ELSE Linked(T, input, o)

Components(input, o) == {Linked({i}, input, o) : i \in 1..Len(input)}

\* The bounding box of the members C of `input`.
BBox(C, input) ==
  LET x1 == SetMin({input[i].x : i \in C})
      y1 == SetMin({input[i].y : i \in C})
      x2 == SetMax({input[i].x + input[i].width : i \in C})
      y2 == SetMax({input[i].y + input[i].height : i \in C})
  IN  MkRect(x1, y1, x2 - x1, y2 - y1)

-----------------------------------------------------------------------------
(* Properties of assertIrreversible.                                        *)

ZeroDim(img) == img.width = 0 \/ img.height = 0

\* The top-left w x h part of an image.
Crop(img, w, h) ==
  [width |-> w, height |-> h,
   data |-> [i \in 1..(w * h) |-> pixelAt(img, img.width, (i - 1) % w, (i - 1) \div w)]]

\* C8 (as stated): assertIrreversible returns true whenever the two images have
\* mismatched dimensions or either has a zero dimension, for every tool.
C8_MismatchOrZeroPasses ==
  vdone =>
    ( ( before.width # after.width \/ before.height # after.height
        \/ ZeroDim(before) \/ ZeroDim(after) ) => verdict = TRUE )

\* C8 (amended): assertIrreversible returns true whenever either image has a
\* zero width or height, for every tool; images of mismatched non-zero
\* dimensions are compared over their common top-left region, with the same
\* result as for the two images cropped to it.
C8_ZeroPassesElseOverlap ==
  vdone =>
    LET w == Min2(before.width, after.width)
        h == Min2(before.height, after.height)
    IN  /\ (ZeroDim(before) \/ ZeroDim(after)) => verdict = TRUE
        /\ (w > 0 /\ h > 0) =>
             verdict = assertIrreversible(Crop(before, w, h), Crop(after, w, h), vtool)

\* A check of a non-empty region against an empty one, with a tool whose test
\* fails on empty statistics.
C8_Witness ==
  /\ vdone
  /\ vtool = "blur"
  /\ ~ZeroDim(before)
  /\ ZeroDim(after)
  /\ verdict = TRUE

-----------------------------------------------------------------------------
(* Properties of the detector clients.                                      *)

\* C3: when disposeDetectorWorker runs while requests are registered in the
\* pending Map, it rejects the promise of every one of them with the
\* "disposed" error, so none of them is left unsettled.
C3_DisposeRejectsOutstanding ==
  [][disposeDetectorWorker =>
       \A r \in pending : promise'[r] = "rejected" /\ reason'[r] = "disposed"]_vars

\* C4: a worker response with id X settles the request registered under X
\* (resolved on ok, rejected otherwise) and removes that entry only; every other
\* request and entry is left as it was; a response whose id has no entry changes
\* no request and no entry; no request is settled more than once.
C4_ResponseOnlyOwnEntry ==
  /\ [](\A r \in Reqs : settles[r] <= 1)
  /\ [][\A m \in outbox : OnMessage(m) =>
          /\ \A r \in Reqs \ {m.id} :
               /\ promise'[r] = promise[r]
               /\ settles'[r] = settles[r]
               /\ (r \in pending') <=> (r \in pending)
          /\ IF m.id \in pending
               THEN /\ m.id \notin pending'
                    /\ promise[m.id] = "pending"
                    /\ promise'[m.id] = (IF m.ok THEN "resolved" ELSE "rejected")
                    /\ settles'[m.id] = settles[m.id] + 1
               ELSE /\ pending' = pending
                    /\ promise' = promise
                    /\ settles' = settles]_vars

\* A response has just settled its own request while another request is still
\* registered and unsettled.
C4_Witness ==
  /\ last.kind = "message"
  /\ last.id \in Reqs
  /\ last.id \notin pending
  /\ promise[last.id] = "resolved"
  /\ \E q \in pending : q # last.id /\ promise[q] = "pending"

\* C5: once the detector has finished on the bitmap of a request, with a result
\* or with an error, that bitmap is closed.
C5_BitmapClosedAfterDetection ==
  \A r \in Reqs : detected[r] # "no" => bitmap[r] = "closed"

-----------------------------------------------------------------------------
(* Properties of AutoDetectPanel and ManualRedactor.                        *)

\* C6: at most one detectBoxesFromCanvas call of the panel is outstanding at any
\* time; a click on Detect while a request is outstanding starts no request; and
\* when no request is outstanding the lock is released, so that a click on the
\* re-rendered button gets past the guard of runDetect and starts one.
C6_OneDetectionInFlight ==
  /\ [](inflight <= 1)
  /\ [][runDetect /\ inflight > 0 => inflight' = inflight /\ calls' = calls]_vars
  /\ [](inflight = 0 => ~working /\ ~runningRef)
  /\ [](inflight = 0 /\ ~workingSeen /\ calls < MaxDetect =>
          /\ ~runDetectReturnsEarly(workingSeen, runningRef)
          /\ ENABLED (runDetect /\ inflight' = 1))

\* A second request is outstanding: it was started after the first one settled.
C6_Witness == calls = 2 /\ inflight = 1 /\ working /\ runningRef

\* C7: a rejected detection request leaves the panel with no suggestion, the error
\* message shown and the lock of runDetect released; and in every state of the panel
\* (idle, request outstanding, failed) applyEffect goes past its early returns for
\* every non-empty rectangle, and a drag over one applies the redaction to the
\* canvas, with its undo snapshot and no exception.
C7_FailureDegradesToManual ==
  /\ [][DetectRejects =>
          baseRects' = <<>> /\ errorMsg' /\ ~working' /\ ~runningRef']_vars
  /\ [](\A rect \in SelectionChoices : positiveArea(rect) => applyEffectRuns(rect))
  /\ [][\A rect \in SelectionChoices, throws \in BOOLEAN :
          ops' # ops /\ positiveArea(rect) /\ onPointerUp(rect, throws) =>
            /\ canvas' = redact(canvas, rect, tool)
            /\ undoStack' = Append(undoStack, canvas)
            /\ ops' = ops + 1
            /\ ~thrown']_vars

\* A request has just failed (the button is not yet re-rendered), the error message
\* is shown, there is no suggestion, and a manual redaction has changed the canvas.
C7_Witness ==
  /\ errorMsg
  /\ baseRects = <<>>
  /\ workingSeen /\ ~working /\ ~runningRef
  /\ inflight = 0
  /\ ops >= 1
  /\ canvas # undoStack[Len(undoStack)]

\* The writes of onApply without their checks.
RECURSIVE redactAll(_, _, _, _)
redactAll(cv, rs, k, tl) ==
  IF k > Len(rs) THEN cv ELSE redactAll(redact(cv, rs[k], tl), rs, k + 1, tl)

\* C9: whatever the irreversibility check returns, and also when it throws, an
\* applied redaction (applyEffect, onApply) leaves the canvas redacted and the undo
\* snapshot recorded, no exception leaves the handler, the only trace of a failed
\* check is a warning, and handleExport can run and writes the canvas.  (Only the
\* steps that count a redaction, ops' # ops, can be steps of applyEffect past its
\* early returns or of onApply.)
C9_CheckIsAdvisory ==
  /\ [](~thrown)
  /\ [][\A rect \in SelectionChoices, throws \in BOOLEAN :
          (/\ ops' # ops /\ handler'.name = "applyEffect" /\ applyEffectRuns(rect)
           /\ onPointerUp(rect, throws)) =>
            /\ canvas' = redact(canvas, rect, tool)
            /\ undoStack' = pushUndoSnapshot(undoStack, canvas)
            /\ warned' =
                 (IF /\ dev
                     /\ ~throws
                     /\ ~assertIrreversible(
                            getImageData(canvas, rect.x, rect.y, rect.width, rect.height),
                            getImageData(canvas', rect.x, rect.y, rect.width, rect.height),
                            tool)
                    THEN 1 ELSE 0)]_vars
  /\ [][\A sel \in SUBSET (1..Len(previewRects)), T \in SUBSET (1..Len(previewRects)) :
          ops' # ops /\ handler'.name = "onApply" /\ onApply(sel, T) =>
            /\ canvas' = redactAll(canvas, finalRects(previewRects, sel, 1), 1, tool)
            /\ undoStack' = pushUndoSnapshot(undoStack, canvas)
            /\ (~dev => warned' = 0)]_vars
  /\ [][handleExport => exported' = canvas]_vars
  /\ [](ENABLED handleExport)

\* A development build has just applied a redaction whose check failed: the warning
\* is there, and so is the undo snapshot of the canvas before the redaction.
C9_Witness ==
  /\ dev
  /\ warned >= 1
  /\ ~thrown
  /\ ops >= 1
  /\ Len(undoStack) = 2
  /\ undoStack[2] \in CanvasChoices

\* ---------------------------------------------------------------------------
\* Distance merging of two rects (geom.test.ts:49-67)

\* Two finite rects that share no area, merged with a positive IoU threshold.
DisjointPair ==
  /\ gstage = "once"
  /\ Len(rects) = 2
  /\ rects[1].fin /\ rects[2].fin
  /\ iou(rects[1], rects[2])[1] = 0
  /\ options.iouThresh > 0

\* edgeDistance(rects[1], rects[2]) <= d, for a threshold d of either sign.
GapAtMost(d) == d >= 0 /\ edgeDistanceSq(rects[1], rects[2]) <= d * d

\* C11 (as stated): two non-overlapping rects merged with iouThresh > 0 come
\* back as one rect, their union box, when their edge gap is at most
\* distancePx, and come back both unchanged when the gap exceeds distancePx.
C11_GapAgainstDistancePx ==
  DisjointPair =>
    /\ GapAtMost(options.distancePx) => merged = <<union(rects[1], rects[2])>>
    /\ ~GapAtMost(options.distancePx) => merged = rects

\* C11 (amended): the gap is compared with distancePx clamped to >= 0: the two
\* rects come back as their union box when the gap is at most
\* max(0, distancePx), and both unchanged when the gap exceeds it; touching
\* rects (gap 0) are merged even under a negative distancePx.
C11_GapAgainstClampedDistance ==
  DisjointPair =>
    /\ GapAtMost(Max2(0, options.distancePx)) => merged = <<union(rects[1], rects[2])>>
    /\ ~GapAtMost(Max2(0, options.distancePx)) => merged = rects

\* The pair of geom.test.ts:51-52 (5px gap) merged under distancePx 6.
C11_Witness ==
  /\ DisjointPair
  /\ rects = <<MkRect(0, 0, 20, 20), MkRect(25, 0, 20, 20)>>
  /\ options.distancePx = 6
  /\ merged = <<MkRect(0, 0, 45, 20)>>

\* ---------------------------------------------------------------------------
\* Coordinate pipeline of the provider client (detectorClient.ts:126-269)

\* The corner of the detector-space rect r that position i of a polygon
\* [x1, y1, x2, y1, x2, y2, x1, y2] holds.
CornerAt(r, i) == r[<<1, 2, 3, 2, 3, 4, 1, 4>>[i]]

\* The canvas side a coordinate at position i of a polygon is measured along.
SideAt(cv, i) == IF i % 2 = 1 THEN cv.width ELSE cv.height

\* C12: the detection scale is min(1, longEdgePx / longEdge) and never exceeds
\* 1, and every coordinate detectBoxesFromCanvas returns is the detector-space
\* coordinate multiplied by 1 / scale exactly once, which puts it on the
\* full-resolution canvas (within 0..width, 0..height).
C12_ScaledBackOnce ==
  (dclient = "provider" /\ dstage = "returned") =>
    LET longEdge == Max2(dcanvas.width, dcanvas.height)
    IN  /\ dscale[2] > 0 /\ dscale[1] <= dscale[2]
        /\ IF dopts.longEdgePx < longEdge
             THEN dscale[1] * longEdge = dscale[2] * dopts.longEdgePx
             ELSE dscale[1] = dscale[2]
        /\ Len(dboxes) = Len(drects)
        /\ \A k \in 1..Len(dboxes) :
             /\ Len(dboxes[k]) = 8
             /\ \A i \in 1..8 :
                  LET c == dboxes[k][i]
                  IN  /\ c[2] > 0
                      /\ c[1] * dscale[1] = CornerAt(drects[k], i) * dscale[2] * c[2]
                      /\ 0 <= c[1] /\ c[1] <= SideAt(dcanvas, i) * c[2]

\* An 18x18 canvas detected at long edge 12: a rect found on the 12x12
\* surface comes back multiplied by 3/2.
C12_Witness ==
  /\ dclient = "provider" /\ dstage = "returned"
  /\ dcanvas.width = 18 /\ dopts.longEdgePx = 12
  /\ dspace = <<12, 12>>
  /\ Len(dboxes) = 1
  /\ drects[1] = <<2, 2, 11, 11>>
  /\ dboxes[1][3][1] * 2 = 33 * dboxes[1][3][2]

\* ---------------------------------------------------------------------------
\* Polygons of the heuristic detectors (ocrWorker.ts:438-509,
\* detectorClient.ts:293-388)

\* C13: every polygon a heuristic detector emits is [x1, y1, x2, y1, x2, y2,
\* x1, y2] with x1 < x2 and y1 < y2, and its coordinates lie within the bitmap
\* it was given (0..width, 0..height).
C13_PolygonsAreBoxesInBitmap ==
  dstage \in {"detected", "returned"} =>
    \A k \in 1..Len(dpolys) :
      LET p == dpolys[k]
      IN  /\ Len(p) = 8
          /\ p = <<p[1], p[2], p[3], p[2], p[3], p[6], p[1], p[6]>>
          /\ p[1] < p[3] /\ p[2] < p[6]
          /\ 0 <= p[1] /\ p[3] <= dbitmap.width
          /\ 0 <= p[2] /\ p[6] <= dbitmap.height

\* A 24x18 bitmap analysed by the worker at long edge 12 (a 12x9 surface):
\* a polygon comes back in the bitmap's coordinates.
C13_Witness ==
  /\ dclient = "worker" /\ dstage = "detected"
  /\ dbitmap.width = 24 /\ dbitmap.height = 18 /\ dspace = <<12, 9>>
  /\ Len(dpolys) = 1
  /\ dpolys[1][3] > 12 /\ dpolys[1][6] > 9

\* Every pixel of the image has the same value.
Uniform(img) ==
  /\ img.width * img.height > 0
  /\ \A i \in 1..(img.width * img.height) : img.data[i] = img.data[1]

\* C14: on a uniform image a heuristic detector returns the empty polygon
\* list, whatever the sensitivity.
C14_UniformGivesNoPolygons ==
  (dstage \in {"detected", "returned"} /\ Uniform(dcanvas)) =>
    /\ Uniform(dbitmap)
    /\ dpolys = <<>>
    /\ dstage = "returned" => dboxes = <<>>

\* The worker has analysed a uniform mid-gray 24x24 bitmap at high
\* sensitivity on a 16x16 surface and found nothing.
C14_Witness ==
  /\ dclient = "worker" /\ dstage = "detected"
  /\ dopts.sensitivity = "high"
  /\ dbitmap = paintCanvas(24, 24, 128, 128)
  /\ dspace = <<16, 16>>
  /\ dpolys = <<>>

\* ---------------------------------------------------------------------------
\* The blackout test of assertIrreversible (metadata.ts:90-95)

\* The lumas of the pixels of an image.
Lumas(img) == {luma(img.data[i]) : i \in 1..(img.width * img.height)}

C15_WitnessMidGray ==
  /\ vdone /\ vtool = "blackout"
  /\ before = makeImageData(2, 2, <<200, 200, 200>>, 0)
  /\ after = makeImageData(2, 2, <<128, 128, 128>>, 0)
  /\ verdict = FALSE

\* ---------------------------------------------------------------------------
\* The worker after an error event (detectorClient.ts:44-49, geom.ts:169-174)

\* C16: once the worker's error event has rejected the pending requests, the
\* errored worker is discarded: the call of detectBoxesFromCanvas that takes
\* its worker next does not get the errored instance.
C16_ErroredWorkerReplaced ==
  [][\A r \in Reqs :
       (last.kind = "error" /\ rworker'[r] # rworker[r]) => rworker'[r] # workerInstance]_vars

\* ---------------------------------------------------------------------------
\* The OCR worker once its detector is loaded (ocrWorker.ts:41-136, 138-178)

\* C17: once the initialization a valid request awaited has succeeded, the
\* request is answered ok unless the detector run itself fails.
C17_ReadyWorkerAnswersOk ==
  \A m \in Msgs :
    ( /\ wpc[m] = "answered" /\ wkind[m] = "valid"
      /\ wawait[m] # 0 /\ inits[wawait[m]] = "fulfilled" ) =>
      wanswer[m] \in {"ok", "detect"}

\* ---------------------------------------------------------------------------
\* polyToRect (geom.ts:4-28)

ZeroRect == MkRect(0, 0, 0, 0)

\* The coordinate pairs of the argument that are finite, as a set of <<x, y>>.
FinitePairsOf(p) ==
  { <<p[i], p[i + 1]>> : i \in {j \in 1..(Len(p) - 1) : j % 2 = 1 /\ isFinite(p[j]) /\ isFinite(p[j + 1])} }

\* C18: polyToRect returns the zero rect for an argument that is not an array
\* of even length with at least 4 values and a finite coordinate pair;
\* otherwise it returns min x, min y, max x - min x and max y - min y of the
\* finite pairs, with width and height >= 0.  It returns on every argument.
C18_ZeroRectOrBoundingBox ==
  kstage = "rect" =>
    LET p == kpoly.values
        pts == FinitePairsOf(p)
        xs == {q[1] : q \in pts}
        ys == {q[2] : q \in pts}
    IN  IF ~kpoly.isArray \/ Len(p) % 2 # 0 \/ Len(p) < 4 \/ pts = {}
          THEN kbox = ZeroRect
          ELSE /\ kbox.x = SetMin(xs) /\ kbox.y = SetMin(ys)
               /\ kbox.width = minus(SetMax(xs), SetMin(xs))
               /\ kbox.height = minus(SetMax(ys), SetMin(ys))
               /\ kbox.width >= 0 /\ kbox.height >= 0
               /\ kbox.width # NaN /\ kbox.height # NaN

\* A pair with a value that is not finite is skipped and the rest is boxed.
C18_Witness ==
  /\ kstage = "rect"
  /\ kpoly = [isArray |-> TRUE, values |-> <<-1, 0, NaN, MaxFinite>>]
  /\ kbox = MkRect(-1, 0, 0, 0)

C18_WitnessBox ==
  /\ kstage = "rect"
  /\ kpoly.values = <<50, 10, 90, 50, 50, 90, 10, 50>>
  /\ kbox = MkRect(10, 10, 80, 80)

C18_WitnessNotArray ==
  /\ kstage = "rect" /\ ~kpoly.isArray /\ kbox = ZeroRect

\* ---------------------------------------------------------------------------
\* polyToRect on its own corners

\* The four corners of a rect: [x, y, x + w, y, x + w, y + h, x, y + h]
CornersOf(r) ==
  <<r.x, r.y, plus(r.x, r.width), r.y, plus(r.x, r.width), plus(r.y, r.height),
    r.x, plus(r.y, r.height)>>

AllFinite(p) == \A i \in 1..Len(p) : isFinite(p[i])

NonNegative(v) == v # NaN /\ v >= 0

\* o strictly contains r: every edge of r lies inside o.  A rect with a field
\* that is not finite has no edges to compare.
StrictlyContains(o, r) ==
  /\ o.fin
  /\ o.x < r.x /\ o.y < r.y
  /\ o.x + o.width > r.x + r.width
  /\ o.y + o.height > r.y + r.height

\* The four fields as the formulas of the claim give them.
InflatedFields(o, r, pad) ==
  /\ o.x = minus(r.x, pad) /\ o.y = minus(r.y, pad)
  /\ o.width = plus(r.width, plus(pad, pad))
  /\ o.height = plus(r.height, plus(pad, pad))

\* None of the four results was rounded or overflowed.
ExactlyInflated(o, r, pad) ==
  /\ o.fin
  /\ o.x = r.x - pad /\ o.y = r.y - pad
  /\ o.width = r.width + 2 * pad /\ o.height = r.height + 2 * pad

\* C20 as stated: for a rect of non-negative dimensions and every pad >= 0 the
\* result has x - pad, y - pad, width + 2 pad and height + 2 pad, and for
\* pad > 0 it strictly contains the rect.
C20_InflatedByPad ==
  ( /\ kstage = "inflated"
    /\ krect.width >= 0 /\ krect.height >= 0 /\ NonNegative(kpad) ) =>
    /\ InflatedFields(kbox, krect, kpad)
    /\ kpad > 0 => StrictlyContains(kbox, krect)

\* C20, amended: for a rect of non-negative dimensions and every finite
\* pad >= 0 the four fields are those values as double arithmetic gives them,
\* and for pad > 0 the result strictly contains the rect whenever none of the
\* four was rounded or overflowed.
C20_InflatedByFinitePad ==
  ( /\ kstage = "inflated"
    /\ krect.width >= 0 /\ krect.height >= 0 /\ NonNegative(kpad) /\ isFinite(kpad) ) =>
    /\ InflatedFields(kbox, krect, kpad)
    /\ (kpad > 0 /\ ExactlyInflated(kbox, krect, kpad)) => StrictlyContains(kbox, krect)

\* geom.test.ts:20-24
C20_Witness ==
  /\ kstage = "inflated"
  /\ krect = MkRect(20, 30, 40, 10) /\ kpad = 5
  /\ kbox = MkRect(15, 25, 50, 20)
  /\ StrictlyContains(kbox, krect)

\* A pad that the subtraction rounds away.
C20_WitnessAbsorbed ==
  /\ kstage = "inflated"
  /\ krect.x = MaxFinite /\ kpad = 1 /\ krect.width = 0
  /\ kbox.x = krect.x /\ kbox.width = 2

\* ---------------------------------------------------------------------------
\* iou (geom.ts:41-54)

\* A sum, difference or product that double arithmetic gives without rounding
\* or overflow.
ExactSum(a, b) == isFinite(plus(a, b)) /\ plus(a, b) = a + b
ExactProduct(a, b) == isFinite(times(a, b)) /\ times(a, b) = a * b

\* Every intermediate result of iou(a, b) is exact.
ExactIou(a, b) ==
  /\ ExactSum(a.x, a.width) /\ ExactSum(a.y, a.height)
  /\ ExactSum(b.x, b.width) /\ ExactSum(b.y, b.height)
  /\ ExactSum(Min2(a.x + a.width, b.x + b.width), -Max2(a.x, b.x))
  /\ ExactSum(Min2(a.y + a.height, b.y + b.height), -Max2(a.y, b.y))
  /\ ExactProduct(Max2(0, Min2(a.x + a.width, b.x + b.width) - Max2(a.x, b.x)),
                  Max2(0, Min2(a.y + a.height, b.y + b.height) - Max2(a.y, b.y)))
  /\ ExactProduct(a.width, a.height) /\ ExactProduct(b.width, b.height)
  /\ ExactSum(a.width * a.height, b.width * b.height)
  /\ ExactSum(a.width * a.height + b.width * b.height, -iou(a, b)[1])

PositiveArea(r) == r.width > 0 /\ r.height > 0
Degenerate(r) == r.width = 0 \/ r.height = 0
Disjoint(a, b) ==
  \/ a.x + a.width <= b.x \/ b.x + b.width <= a.x
  \/ a.y + a.height <= b.y \/ b.y + b.height <= a.y

\* 0 <= inter / denom <= 1, IoU(a, a) = 1 for a of positive area, and 0 for
\* disjoint or degenerate rects, on the ratio q = iou(a, b).
IouLaws(q, a, b) ==
  /\ q[1] # NaN /\ q[2] # NaN
  /\ 0 <= q[1] /\ q[1] <= q[2]
  /\ (a = b /\ PositiveArea(a)) => q[1] = q[2]
  /\ (Disjoint(a, b) \/ Degenerate(a) \/ Degenerate(b)) => q[1] = 0

\* C21 as stated: IoU is symmetric, 1 for IoU(a, a) when a has positive area,
\* always in [0, 1], and 0 for disjoint or degenerate rects.
C21_IouLaws ==
  kstage = "ratio" =>
    /\ kratio = iou(krect2, krect)
    /\ IouLaws(kratio, krect, krect2)

\* C21, amended: IoU is symmetric; the other three hold when every step of
\* the computation is exact.
C21_IouLawsWhenExact ==
  kstage = "ratio" =>
    /\ kratio = iou(krect2, krect)
    /\ ExactIou(krect, krect2) => IouLaws(kratio, krect, krect2)

\* geom.test.ts:36-37: the overlapping pair has IoU 300 / 1300.
C21_Witness ==
  /\ kstage = "ratio"
  /\ krect = MkRect(10, 10, 40, 20) /\ krect2 = MkRect(30, 15, 40, 20)
  /\ ExactIou(krect, krect2)
  /\ kratio = <<300, 1300>>

C21_WitnessSelf ==
  /\ kstage = "ratio"
  /\ krect = MkRect(10, 10, 40, 20) /\ krect2 = krect
  /\ kratio = <<800, 800>>

\* A right edge that is rounded makes IoU(a, a) exceed 1.
C21_WitnessRounded ==
  /\ kstage = "ratio"
  /\ krect = MkRect(1, 0, Pow2(SignificantBits) + 2, 1) /\ krect2 = krect
  /\ kratio[1] > kratio[2]

-----------------------------------------------------------------------------
(* Properties of the detectors' stages.                                     *)

\* width / height of the component lies in [minAspect, maxAspect] = [0.15, 40]
AspectWithin(c) == 100 * c.w >= 15 * c.h /\ c.w <= 40 * c.h

\* C22: no connected component survives the filter of detectHeuristic with a ratio
\* width / height below 0.15 or above 40.
C22_KeptHasAspectWithin == (sstage = "filtered" /\ skept) => AspectWithin(scomp)

\* What the code keeps to: a surviving component has width / height or height / width
\* in [0.15, 40], so its width / height is in [0.025, 40].
C22_KeptHasSomeAspectWithin ==
  (sstage = "filtered" /\ skept) =>
    (AspectWithin(scomp) \/ (100 * scomp.h >= 15 * scomp.w /\ scomp.h <= 40 * scomp.w))

\* a 6 x 60 column, width / height 0.1, has been through the filter
C22_TallColumnFiltered ==
  sstage = "filtered" /\ scomp.w = 6 /\ scomp.h = 60 /\ scomp.fill = scomp.area

\* the pixels a mask lights
Lit(mask) == {i \in 1..Len(mask) : mask[i] = 1}

\* the masks of two sensitivities are both computed, and the first lights no pixel the
\* second leaves dark
LitWithin(masks, lo, hi) ==
  (masks[lo] # <<>> /\ masks[hi] # <<>>) => Lit(masks[lo]) \subseteq Lit(masks[hi])

\* C23: the threshold is monotonic in sensitivity: on one normalized edge-magnitude map
\* every pixel lit at 'low' is lit at 'med' and every pixel lit at 'med' is lit at
\* 'high', for thresholdBinary of the worker and for the gradient threshold of
\* HeuristicTextDetector.
C23_LitGrowsWithSensitivity ==
  /\ LitWithin(smask, "low", "med") /\ LitWithin(smask, "med", "high")
  /\ LitWithin(sgrad, "low", "med") /\ LitWithin(sgrad, "med", "high")

\* thresholdBinary has run at the three sensitivities on one map and lit strictly more
\* pixels each time
C23_Witness ==
  /\ sstage = "thresholdBinary"
  /\ \A s \in Sensitivities : smask[s] # <<>>
  /\ Lit(smask["low"]) # Lit(smask["med"])
  /\ Lit(smask["med"]) # Lit(smask["high"])
  /\ Lit(smask["low"]) # {}

\* the gradient threshold has run at the three sensitivities on one image and lit the
\* centre pixel at 'high' only
C23_WitnessGradient ==
  /\ sstage = "gradient"
  /\ \A s \in Sensitivities : sgrad[s] # <<>>
  /\ Lit(sgrad["low"]) = {} /\ Lit(sgrad["med"]) = {} /\ Lit(sgrad["high"]) = {5}

-----------------------------------------------------------------------------
(* Properties of the redaction history.                                     *)

C24_WitnessApply ==
  /\ handler.name = "onApply" /\ canvas # undoStack[Len(undoStack)]
  /\ Len(baseRects) = 1

\* the step pushes a snapshot: a redaction that ran, or a redo
Pushes == ops' # ops \/ handler'.name = "redo"

C25_WitnessUndo == handler.name = "undo" /\ Len(undoStack) = 1

\* the handler that went to the canvas last was a redaction that wrote to it
Redacted == handler.name \in {"applyEffect", "onApply"} /\ ~handler.empty

\* C26: an undo that follows a redaction puts the canvas back to its content just
\* before that redaction, which is the snapshot the redaction pushed (the top of the
\* undo stack), and undoes no more than that one redaction.
C26_UndoRestoresBeforeLastRedaction ==
  [][(handler'.name = "undo" /\ Redacted) => canvas' = undoStack[Len(undoStack)]]_vars

\* What undo does: it puts back the snapshot below the top.
C26_UndoRestoresBelowTop ==
  [][handler'.name = "undo" => canvas' = undoStack[Len(undoStack) - 1]]_vars

\* The first redaction after the image is loaded is undone exactly.
C26_UndoOfFirstRedaction ==
  [][(handler'.name = "undo" /\ Redacted /\ ops = 1) =>
        canvas' = undoStack[Len(undoStack)]]_vars

\* two redactions, then one undo that put the loaded image back
C26_TwoRedactionsUndone ==
  /\ handler.name = "undo" /\ ops = 2 /\ Len(redoStack) = 1 /\ Len(undoStack) = 2
  /\ canvas = undoStack[1] /\ canvas # redoStack[1]

\* C27: every step that writes a new redaction to the canvas empties the redo stack, so
\* that no later redo puts back a snapshot taken before that redaction.
C27_RedactionEmptiesRedoStack == [][ops' # ops => redoStack' = <<>>]_vars

\* What holds: applyEffect empties the redo stack; onApply leaves it as it is.
C27_ApplyEffectEmptiesRedoStack ==
  /\ [][(ops' # ops /\ handler'.name = "applyEffect") => redoStack' = <<>>]_vars
  /\ [][handler'.name = "onApply" => redoStack' = redoStack]_vars

\* onApply has redacted while the redo stack held a snapshot taken before it
C27_ApplyKeptRedoStack ==
  /\ handler.name = "onApply" /\ redoStack # <<>>
  /\ canvas # undoStack[Len(undoStack)]

-----------------------------------------------------------------------------
(* Liveness of the detector clients.                                        *)

\* C28: every call of detectBoxesFromCanvas eventually settles, and no entry stays in
\* the pending Map for ever, whatever calls of disposeDetectorWorker and worker error
\* events come between its steps.
C28_EveryCallSettles ==
  \A r \in Reqs :
    /\ (promise[r] = "pending") ~> (promise[r] # "pending")
    /\ (r \in pending) ~> (r \notin pending)

\* What holds: a call of the provider client settles, and so does a call of a worker
\* client during which no worker is disposed of.
C28_ProviderCallSettles ==
  \A r \in Reqs : (client = "provider" /\ promise[r] = "pending") ~> (promise[r] # "pending")

\* a call is left pending with nothing in flight for it
C28_CallHangs ==
  \E r \in Reqs :
    /\ promise[r] = "pending" /\ pc[r] = "posted"
    /\ r \notin inbox /\ \A m \in outbox : m.id # r

-----------------------------------------------------------------------------
(* The specification of the detections store.                               *)

InitStore ==
  /\ StoreInit
  /\ GeomIdle /\ VerifyIdle /\ ClientIdle /\ UIIdle /\ DetectIdle /\ WorkerIdle
  /\ KernelIdle /\ StageIdle
SpecStore == InitStore /\ [][StoreNext]_vars

C29_DetectionRunKeepsAcceptedById ==
  [][runs' # runs => acceptedById' = acceptedById]_vars

\* onApplyAccepted has redacted a detection of the second list that the user has not
\* accepted since the list replaced the first
C29_StaleAcceptanceRedacted ==
  /\ runs = 2 /\ appliedIds.run = 2
  /\ \E id \in appliedIds.ids : id \notin userAccepted

-----------------------------------------------------------------------------
(* inflateRect with a negative pad.                                         *)

\* pad < 0 as the program's comparison has it: false for NaN.
Negative(v) == v # NaN /\ v < 0

\* o lies inside r: its x and y extents stay within those of r
Inside(o, r) ==
  /\ o.fin
  /\ r.x <= o.x /\ o.x + o.width <= r.x + r.width
  /\ r.y <= o.y /\ o.y + o.height <= r.y + r.height

\* the deflation by pad leaves r a size: no dimension is clamped to zero
Unclamped(r, pad) ==
  /\ r.width + 2 * padOf(pad) >= 0
  /\ r.height + 2 * padOf(pad) >= 0

\* C30: for every rect r of non-negative dimensions and every negative pad,
\* inflateRect(r, pad) has a non-negative width and height and lies entirely inside r,
\* also when the deflation is clamped to zero size.
C30_DeflatedInside ==
  ( /\ kstage = "inflated"
    /\ krect.width >= 0 /\ krect.height >= 0 /\ Negative(kpad) ) =>
    /\ kbox.width >= 0 /\ kbox.height >= 0
    /\ Inside(kbox, krect)

\* What holds: the dimensions of the result are never negative, and the result lies
\* inside r whenever no dimension was clamped and none of the four fields was rounded
\* or overflowed.
C30_DeflatedInsideUnlessClamped ==
  ( /\ kstage = "inflated"
    /\ krect.width >= 0 /\ krect.height >= 0 /\ Negative(kpad) ) =>
    /\ kbox.width >= 0 /\ kbox.height >= 0
    /\ ( Unclamped(krect, kpad) /\ ExactlyInflated(kbox, krect, padOf(kpad)) ) =>
         Inside(kbox, krect)

\* a deflation clamped to zero size has put the result beyond the far edges of r
C30_ClampedOutside ==
  /\ kstage = "inflated"
  /\ krect.width >= 0 /\ krect.height >= 0 /\ Negative(kpad)
  /\ kbox.width = 0 /\ kbox.height = 0
  /\ kbox.x > krect.x + krect.width /\ kbox.y > krect.y + krect.height

=============================================================================
